---- MODULE Spec2Model ----
(***************************************************************************)
(* Debt ledger, wallet ledger, pending-deduction workflow and settlement   *)
(* optimizer of the expense-splitting bot (src/db.py, src/main.py,         *)
(* src/services/*.py).                                                     *)
(*                                                                         *)
(* Amounts are integers counted in the smallest stored unit (one           *)
(* hundredth for wallet amounts).  Every Database method opens its own     *)
(* connection and commits before it returns, so one method call is one     *)
(* action; a chat handler that awaits several methods is a process whose   *)
(* position is kept in a pc field.  The Application is built without       *)
(* concurrent_updates (main.py, Application.builder()), so one update is   *)
(* handled at a time: there is one handler position per callback, and the  *)
(* Database methods other code can call in between are actions of their    *)
(* own.                                                                    *)
(***************************************************************************)
EXTENDS Integers, Sequences, FiniteSets, TLC

\* ------------------------------------------------------------------ bounds
MaxWallets == 1
MaxAdjustments == 3
MaxPending == 1
MaxDeductions == 1
MaxAmount == 2
MaxDebtCalls == 2
MaxExpenses == 2
MaxDelta == 1
MaxRows == 2
MaxDebt == 2
MaxCents == 2
MaxPersonal == 1
MaxClock == 3

Users == {1, 2}
Sharers == {1}
Currencies == {"VND", "TWD"}
Amounts == 1..MaxAmount
Shares == {1}
InitialAmounts == {MaxAmount}
NoWallet == 0
Requests == {1}

VARIABLES
    user_wallets,        \* wallet id -> [user_id, currency, initial_amount, current_balance]
    next_wallet_id,      \* AUTOINCREMENT of user_wallets
    wallet_adjustments,  \* sequence of [wallet_id, delta_amount, reason]
    exchange_rates,      \* <<from, to>> -> [num, den]   (operator-set rates)
    user_settings,       \* user id -> preferred currency
    pending_deductions,  \* pending id -> row
    next_pending_id,     \* AUTOINCREMENT of pending_deductions
    group_deductions,    \* sequence of rows
    confirm_req,         \* request -> position and locals of a confirm_payment_ callback
    debits,              \* pending id -> amounts debited from wallets for it  (history)
    recorded,            \* pending id -> group_deductions rows inserted for it (history)
    not_found,           \* pending ids a confirm request found already gone   (history)
    group_debts,         \* set of rows [group_id, debtor_user_id, creditor_user_id, amount, currency]
    group_expenses,      \* sequence of [group_id, payer_user_id, amount, currency, participants]
    split,               \* position and state of the split_equally callback
    debt_log,            \* the last two update_group_debts calls            (history)
    debt_calls,          \* number of update_group_debts calls made           (history)
    opt_rows,            \* the group_debts rows optimize_group_debts is run on
    opt,                 \* position and locals of optimize_group_debts
    stl_balances,        \* the balances calculate_settlements is called with
    stl,                 \* position and locals of calculate_settlements
    calls,               \* caller -> position and locals of a Database method call in progress
    db_lock,             \* the callers whose connection holds SQLite's write lock (none or one)
    personal_expenses,   \* expense id -> [user_id, amount, currency, wallet_id, converted_amount,
                         \*                created_at, undo_until, debited]; debited is history:
                         \*                what the handler took from the wallet for the expense
    next_expense_id,     \* AUTOINCREMENT of personal_expenses
    now,                 \* datetime.now(), in ticks
    pflow,               \* position and locals of a personal-expense handler
    undone               \* the credits undo_personal_expense has made            (history)

ledgerVars == <<user_wallets, next_wallet_id, wallet_adjustments, exchange_rates,
                user_settings,
                pending_deductions, next_pending_id, group_deductions,
                confirm_req, debits, recorded, not_found>>

debtVars == <<group_debts, group_expenses, split, debt_log, debt_calls>>

optVars == <<opt_rows, opt>>

stlVars == <<stl_balances, stl>>

apiVars == <<calls, db_lock>>

expVars == <<personal_expenses, next_expense_id, now, pflow, undone>>

vars == <<ledgerVars, debtVars, optVars, stlVars, apiVars, expVars>>

\* ------------------------------------------------------- decimal helpers
\* Decimal.quantize(Decimal('0.01')) of n/d hundredths, ROUND_HALF_EVEN
Quantize(n, d) ==
    LET q == n \div d
        r == n % d
    IN  IF 2 * r > d THEN q + 1
        ELSE IF 2 * r = d THEN q + (q % 2)
        ELSE q

RECURSIVE SumDeltas(_, _)
SumDeltas(adj, w) ==
    IF adj = <<>> THEN 0
    ELSE (IF Head(adj).wallet_id = w THEN Head(adj).delta_amount ELSE 0)
         + SumDeltas(Tail(adj), w)

One == [num |-> 1, den |-> 1]
NoRate == [num |-> 0, den |-> 1]

\* the same lookup trying the reverse pair first
get_exchange_rate_reverse_first(rates, from, to) ==
    IF from = to THEN One
    ELSE IF <<to, from>> \in DOMAIN rates
         THEN [num |-> rates[<<to, from>>].den, den |-> rates[<<to, from>>].num]
    ELSE IF <<from, to>> \in DOMAIN rates THEN rates[<<from, to>>]
    ELSE NoRate

\* Database.get_exchange_rate: direct pair, else reciprocal, else None
get_exchange_rate(rates, from, to) ==
    IF from = to THEN One
    ELSE IF <<from, to>> \in DOMAIN rates THEN rates[<<from, to>>]
    ELSE IF <<to, from>> \in DOMAIN rates
         THEN [num |-> rates[<<to, from>>].den, den |-> rates[<<to, from>>].num]
    ELSE NoRate

\* the same conversion with the product cut off after two decimals
convert_round_down(rates, amount, from, to) ==
    IF from = to THEN [ok |-> TRUE, rate |-> One, amount |-> amount]
    ELSE LET admin_rate == get_exchange_rate(rates, from, to)
         IN  IF admin_rate.num # 0
             THEN [ok |-> TRUE, rate |-> admin_rate,
                   amount |-> (amount * admin_rate.num) \div admin_rate.den]
             ELSE [ok |-> FALSE, rate |-> NoRate, amount |-> 0]

\* CurrencyService.convert: (rate, converted) or an exception.  Without an
\* operator-set rate the cache lookup calls get_exchange_rate with three
\* arguments, outside the try block, which raises.
convert(rates, amount, from, to) ==
    IF from = to THEN [ok |-> TRUE, rate |-> One, amount |-> amount]
    ELSE LET admin_rate == get_exchange_rate(rates, from, to)
         IN  IF admin_rate.num # 0
             THEN [ok |-> TRUE, rate |-> admin_rate,
                   amount |-> Quantize(amount * admin_rate.num, admin_rate.den)]
             ELSE [ok |-> FALSE, rate |-> NoRate, amount |-> 0]

\* ------------------------------------------------------------------ init
IdleReq == [pc |-> "idle", pending_id |-> 0, wallet_id |-> 0,
            user_id |-> 0, expense_id |-> 0, share_amount |-> 0,
            share_currency |-> "VND", fx_rate |-> One, deduction_amount |-> 0]

\* the admin's rate table: empty, or one TWD to VND rate
RateTables == {<<>>, [k \in {<<"TWD", "VND">>} |-> [num |-> 2, den |-> 1]]}

LedgerEmpty ==
    /\ user_wallets = <<>>
    /\ next_wallet_id = 1
    /\ wallet_adjustments = <<>>
    /\ user_settings = [u \in Users |-> "TWD"]
    /\ pending_deductions = <<>>
    /\ next_pending_id = 1
    /\ group_deductions = <<>>
    /\ confirm_req = [r \in Requests |-> IdleReq]
    /\ debits = [p \in 1..MaxPending |-> <<>>]
    /\ recorded = [p \in 1..MaxPending |-> 0]
    /\ not_found = {}

LedgerInit == LedgerEmpty /\ exchange_rates \in RateTables

NoRates == LedgerEmpty /\ exchange_rates = <<>>

\* ------------------------------------------------------- wallet ledger
WalletOf(user_id, currency) ==
    {w \in DOMAIN user_wallets :
        user_wallets[w].user_id = user_id /\ user_wallets[w].currency = currency}

InsertWallet(w, row) ==
    [x \in DOMAIN user_wallets \cup {w} |-> IF x = w THEN row ELSE user_wallets[x]]

\* Database.create_wallet: INSERT fails on UNIQUE(user_id, currency)
create_wallet(user_id, currency, initial_amount) ==
    /\ WalletOf(user_id, currency) = {}
    /\ user_wallets' = InsertWallet(next_wallet_id,
            [user_id |-> user_id, currency |-> currency,
             initial_amount |-> initial_amount, current_balance |-> initial_amount])
    /\ next_wallet_id' = next_wallet_id + 1
    /\ wallet_adjustments' = Append(wallet_adjustments,
            [wallet_id |-> next_wallet_id, delta_amount |-> initial_amount,
             reason |-> "Tạo ví mới"])

\* a balance update that loses the delta
NewBalanceStale(balance, delta_amount) == balance

\* "new_balance = current_balance + delta_amount"
NewBalance(balance, delta_amount) == balance + delta_amount

AdjustmentRow(wallet_id, delta_amount, reason) ==
    [wallet_id |-> wallet_id, delta_amount |-> delta_amount, reason |-> reason]

\* Database.update_wallet_balance on an existing wallet (returns True)
update_wallet_balance(wallet_id, delta_amount, reason) ==
    /\ wallet_id \in DOMAIN user_wallets
    /\ user_wallets' = [user_wallets EXCEPT ![wallet_id].current_balance =
                            NewBalance(@, delta_amount)]
    /\ wallet_adjustments' = Append(wallet_adjustments,
                                    AdjustmentRow(wallet_id, delta_amount, reason))

\* Database.delete_wallet: unconditional; adjustment rows are left behind
delete_wallet(wallet_id) ==
    /\ wallet_id \in DOMAIN user_wallets
    /\ user_wallets' = [x \in DOMAIN user_wallets \ {wallet_id} |-> user_wallets[x]]

\* the wallet_adjustments rows the pending-deduction workflow may fill: the
\* creation rows and one debit
MaxLedgerRows == MaxWallets + 1

\* frames
walletTables == <<user_wallets, next_wallet_id, wallet_adjustments>>
settings == <<exchange_rates, user_settings>>
pendingTables == <<pending_deductions, next_pending_id>>
history == <<debits, recorded, not_found>>
nonWalletVars == <<settings, pendingTables, group_deductions, confirm_req, history,
                   debtVars, optVars, stlVars, apiVars, expVars>>

CreateWallet ==
    /\ next_wallet_id <= MaxWallets
    /\ Len(wallet_adjustments) < MaxAdjustments
    /\ \E u \in Users, c \in Currencies, a \in InitialAmounts : create_wallet(u, c, a)
    /\ UNCHANGED nonWalletVars

\* top-up (main.py "Nạp tiền") and decrease (main.py "Giảm tiền") flows
TopUp ==
    /\ Len(wallet_adjustments) < MaxAdjustments
    /\ \E w \in DOMAIN user_wallets, a \in Amounts : update_wallet_balance(w, a, "Nạp tiền")
    /\ UNCHANGED next_wallet_id
    /\ UNCHANGED nonWalletVars

\* the decrease is made when "if amount > current_balance: ... return" lets
\* it pass; a refused one changes nothing
Decrease ==
    /\ Len(wallet_adjustments) < MaxAdjustments
    /\ \E w \in DOMAIN user_wallets, a \in Amounts :
          /\ a <= user_wallets[w].current_balance
          /\ update_wallet_balance(w, -a, "Giảm tiền")
    /\ UNCHANGED next_wallet_id
    /\ UNCHANGED nonWalletVars

DeleteWallet ==
    /\ \E w \in DOMAIN user_wallets : delete_wallet(w)
    /\ UNCHANGED <<next_wallet_id, wallet_adjustments>>
    /\ UNCHANGED nonWalletVars

\* ------------------------------------------------ pending deductions
NullAmount == -1

PendingRow(user_id, expense_id, share_amount, share_currency, wallet_id, fx_rate, amount) ==
    [user_id |-> user_id, trip_id |-> 1, expense_id |-> expense_id,
     share_amount |-> share_amount, share_currency |-> share_currency,
     suggested_wallet_id |-> wallet_id, suggested_fx_rate |-> fx_rate,
     suggested_deduction_amount |-> amount]

\* AUTOINCREMENT: an id is never handed out twice
NewPendingId == next_pending_id

\* the same insert on a table without AUTOINCREMENT: the id is one more than
\* the largest id present
add_pending_deduction_rowid(row) ==
    LET present == DOMAIN pending_deductions
        id == IF present = {} THEN 1
              ELSE (CHOOSE x \in present : \A y \in present : y <= x) + 1
    IN  /\ id <= MaxPending
        /\ pending_deductions' =
              [x \in present \cup {id} |-> IF x = id THEN row ELSE pending_deductions[x]]
        /\ next_pending_id' = IF id >= next_pending_id THEN id + 1 ELSE next_pending_id

\* Database.add_pending_deduction
add_pending_deduction(row) ==
    /\ next_pending_id <= MaxPending
    /\ pending_deductions' =
         [x \in DOMAIN pending_deductions \cup {NewPendingId} |->
            IF x = NewPendingId THEN row ELSE pending_deductions[x]]
    /\ next_pending_id' = next_pending_id + 1

\* Database.get_user_wallets: ORDER BY currency ("TWD" sorts before "VND")
CurrencyOrder == <<"TWD", "VND">>

WalletsByCurrency(user_id) ==
    LET has(i) == WalletOf(user_id, CurrencyOrder[i]) # {}
        pick(i) == CHOOSE w \in WalletOf(user_id, CurrencyOrder[i]) : TRUE
    IN  (IF has(1) THEN <<pick(1)>> ELSE <<>>) \o (IF has(2) THEN <<pick(2)>> ELSE <<>>)

\* DeductionService.suggest_wallet_for_deduction: list of [wallet, rate, amount]
suggest_wallet_for_deduction(user_id, share_amount, share_currency) ==
    LET ws == WalletsByCurrency(user_id)
        pref == user_settings[user_id]
        same == {i \in DOMAIN ws : user_wallets[ws[i]].currency = share_currency}
        cv(w) == convert(exchange_rates, share_amount, share_currency,
                         user_wallets[w].currency)
        sug(w) == IF cv(w).ok THEN <<[wallet_id |-> w, fx_rate |-> cv(w).rate,
                                       amount |-> cv(w).amount]>>
                  ELSE <<>>
        prefs == {i \in DOMAIN ws : user_wallets[ws[i]].currency = pref}
        others == SelectSeq(ws, LAMBDA w : user_wallets[w].currency \notin
                                              {share_currency, pref})
    IN  IF same # {}
        THEN <<[wallet_id |-> ws[CHOOSE i \in same : TRUE], fx_rate |-> One,
                amount |-> share_amount]>>
        ELSE (IF prefs # {} THEN sug(ws[CHOOSE i \in prefs : TRUE]) ELSE <<>>)
             \o (IF others = <<>> THEN <<>> ELSE sug(others[1]))

\* DeductionService.process_auto_deduction
process_auto_deduction(user_id, expense_id, share_amount, share_currency) ==
    LET suggestions == suggest_wallet_for_deduction(user_id, share_amount, share_currency)
    IN  IF suggestions = <<>>
        THEN add_pending_deduction(PendingRow(user_id, expense_id, share_amount,
                                   share_currency, NoWallet, NoRate, NullAmount))
        ELSE add_pending_deduction(PendingRow(user_id, expense_id, share_amount,
                                   share_currency, suggestions[1].wallet_id,
                                   suggestions[1].fx_rate, suggestions[1].amount))

\* DeductionService.manual_deduction
manual_deduction(user_id, expense_id, share_amount, share_currency, wallet_id) ==
    /\ wallet_id \in DOMAIN user_wallets
    /\ user_wallets[wallet_id].user_id = user_id
    /\ LET cv == convert(exchange_rates, share_amount, share_currency,
                         user_wallets[wallet_id].currency)
       IN  /\ cv.ok
           /\ add_pending_deduction(PendingRow(user_id, expense_id, share_amount,
                                    share_currency, wallet_id, cv.rate, cv.amount))

\* a creation that takes the suggested amount from the suggested wallet at
\* once
ProcessAutoDeductionDebits ==
    /\ \E u \in Sharers, a \in Shares, c \in Currencies :
          /\ process_auto_deduction(u, 1, a, c)
          /\ LET suggestions == suggest_wallet_for_deduction(u, a, c)
             IN  IF suggestions = <<>> \/ Len(wallet_adjustments) >= MaxLedgerRows
                 THEN UNCHANGED walletTables
                 ELSE /\ update_wallet_balance(suggestions[1].wallet_id,
                                               -suggestions[1].amount, "Thanh toán ghi nợ nhóm")
                      /\ UNCHANGED next_wallet_id
    /\ UNCHANGED <<settings, group_deductions, confirm_req, history, debtVars, optVars, stlVars, apiVars, expVars>>

ProcessAutoDeduction ==
    /\ \E u \in Sharers, a \in Shares, c \in Currencies : process_auto_deduction(u, 1, a, c)
    /\ UNCHANGED <<walletTables, settings, group_deductions, confirm_req, history, debtVars, optVars, stlVars, apiVars, expVars>>

ManualDeduction ==
    /\ \E u \in Sharers, a \in Shares, c \in Currencies, w \in DOMAIN user_wallets :
          manual_deduction(u, 1, a, c, w)
    /\ UNCHANGED <<walletTables, settings, group_deductions, confirm_req, history, debtVars, optVars, stlVars, apiVars, expVars>>

DeletePending(p) ==
    [x \in DOMAIN pending_deductions \ {p} |-> pending_deductions[x]]

\* a group_deductions row; pending_id is no column of the table, it records
\* which pending deduction the row was written for
DeductionRow(pending_id, user_id, expense_id, share_amount, share_currency, wallet_id, fx_rate, amount) ==
    [pending_id |-> pending_id,
     user_id |-> user_id, trip_id |-> 1, expense_id |-> expense_id,
     share_amount |-> share_amount, share_currency |-> share_currency,
     wallet_id |-> wallet_id, fx_rate_used |-> fx_rate,
     deducted_amount_in_wallet_currency |-> amount]

\* Database.cancel_pending_deduction: DELETE, then True whatever was deleted
cancel_pending_deduction(p) ==
    pending_deductions' = DeletePending(p)

\* a cancellation that also wipes the debts of the group
CancelPendingSettles ==
    /\ \E p \in DOMAIN pending_deductions : cancel_pending_deduction(p)
    /\ group_debts' = {}
    /\ UNCHANGED <<group_expenses, split, debt_log, debt_calls>>
    /\ UNCHANGED <<walletTables, settings, next_pending_id, group_deductions,
                   confirm_req, history, optVars, stlVars, apiVars, expVars>>

CancelPending ==
    /\ \E p \in DOMAIN pending_deductions : cancel_pending_deduction(p)
    /\ UNCHANGED <<walletTables, settings, next_pending_id, group_deductions,
                   confirm_req, history, debtVars, optVars, stlVars, apiVars, expVars>>

\* Database.confirm_pending_deduction: the row takes the suggested rate and
\* amount ("pending[7] or 1.0", "pending[8] or pending[4]"); no wallet is touched
SuggestedRate(row) ==
    IF row.suggested_fx_rate.num = 0 THEN One ELSE row.suggested_fx_rate

SuggestedAmount(row) ==
    IF row.suggested_deduction_amount \in {NullAmount, 0}
    THEN row.share_amount ELSE row.suggested_deduction_amount

confirm_pending_deduction(p, wallet_id) ==
    /\ p \in DOMAIN pending_deductions
    /\ Len(group_deductions) < MaxDeductions
    /\ LET row == pending_deductions[p]
       IN  group_deductions' = Append(group_deductions,
                  DeductionRow(p, row.user_id, row.expense_id, row.share_amount,
                               row.share_currency, wallet_id, SuggestedRate(row),
                               SuggestedAmount(row)))
    /\ pending_deductions' = DeletePending(p)
    /\ recorded' = [recorded EXCEPT ![p] = @ + 1]

DbConfirmPending ==
    /\ \E p \in DOMAIN pending_deductions, w \in 1..MaxWallets :
          confirm_pending_deduction(p, w)
    /\ UNCHANGED <<walletTables, settings, next_pending_id, confirm_req, debits,
                   not_found, debtVars, optVars, stlVars, apiVars, expVars>>

\* ---------------------------------------- confirm_payment_ callback
\* main.py handle_callback_query, branch confirm_payment_<pending>_<wallet>.
\* The handler awaits, in this order: get_user_pending_deductions,
\* get_wallet, convert, update_wallet_balance, add_group_deduction,
\* cancel_pending_deduction.  The three reads change nothing and are taken
\* as one step; each of the three writes is committed on its own.
Terminal(p) == p < next_pending_id /\ p \notin DOMAIN pending_deductions

InFlight(p) ==
    \E r \in Requests : confirm_req[r].pc # "idle" /\ confirm_req[r].pending_id = p

\* the "for p in pending_deductions: if p['id'] == pending_id" search
PendingFound(user_id, p) ==
    p \in DOMAIN pending_deductions /\ pending_deductions[p].user_id = user_id

\* "if not wallet or wallet.user_id != db_user.id" negated
WalletValid(user_id, w) ==
    w \in DOMAIN user_wallets /\ user_wallets[w].user_id = user_id

\* the reads of one request
ConfirmRead(r) ==
    /\ confirm_req[r].pc = "idle"
    /\ \E u \in Users, p \in 1..MaxPending, w \in 1..MaxWallets :
         LET row == pending_deductions[p]
             cv == convert(exchange_rates, row.share_amount, row.share_currency,
                           user_wallets[w].currency)
         IN  /\ confirm_req' = [confirm_req EXCEPT ![r] =
                  IF ~PendingFound(u, p) \/ ~WalletValid(u, w) \/ ~cv.ok THEN IdleReq
                  ELSE [pc |-> "debit", pending_id |-> p,
                        wallet_id |-> w, user_id |-> u,
                        expense_id |-> row.expense_id,
                        share_amount |-> row.share_amount,
                        share_currency |-> row.share_currency,
                        fx_rate |-> cv.rate, deduction_amount |-> cv.amount]]
             /\ not_found' = IF ~PendingFound(u, p) /\ Terminal(p)
                             THEN not_found \cup {p} ELSE not_found
    /\ UNCHANGED <<walletTables, settings, pendingTables, group_deductions,
                   debits, recorded, debtVars, optVars, stlVars, apiVars, expVars>>

\* update_wallet_balance(wallet.id, -deduction_amount, ...) returned True
ConfirmDebit(r) ==
    /\ confirm_req[r].pc = "debit"
    /\ Len(wallet_adjustments) < MaxLedgerRows
    /\ update_wallet_balance(confirm_req[r].wallet_id, -confirm_req[r].deduction_amount,
                             "Thanh toán ghi nợ nhóm")
    /\ debits' = [debits EXCEPT ![confirm_req[r].pending_id] =
                                Append(@, confirm_req[r].deduction_amount)]
    /\ confirm_req' = [confirm_req EXCEPT ![r].pc = "record"]
    /\ UNCHANGED <<next_wallet_id, settings, pendingTables, group_deductions,
                   recorded, not_found, debtVars, optVars, stlVars, apiVars, expVars>>

\* update_wallet_balance returned False: the wallet was deleted meanwhile
ConfirmDebitNoWallet(r) ==
    /\ confirm_req[r].pc = "debit"
    /\ confirm_req[r].wallet_id \notin DOMAIN user_wallets
    /\ confirm_req' = [confirm_req EXCEPT ![r] = IdleReq]
    /\ UNCHANGED <<walletTables, settings, pendingTables, group_deductions, history,
                   debtVars, optVars, stlVars, apiVars, expVars>>

\* Database.add_group_deduction
add_group_deduction(row) ==
    /\ Len(group_deductions) < MaxDeductions
    /\ group_deductions' = Append(group_deductions, row)

ConfirmRecord(r) ==
    /\ confirm_req[r].pc = "record"
    /\ LET q == confirm_req[r]
       IN  add_group_deduction(DeductionRow(q.pending_id, q.user_id, q.expense_id,
                               q.share_amount, q.share_currency, q.wallet_id,
                               q.fx_rate, q.deduction_amount))
    /\ recorded' = [recorded EXCEPT ![confirm_req[r].pending_id] = @ + 1]
    /\ confirm_req' = [confirm_req EXCEPT ![r].pc = "remove"]
    /\ UNCHANGED <<walletTables, settings, pendingTables, debits, not_found, debtVars, optVars, stlVars, apiVars, expVars>>

\* add_group_deduction raised (the driver rejects the statement or its
\* parameters, the database is locked): the handler's except clause reports
\* an error and returns; the debit stays
ConfirmRecordFails(r) ==
    /\ confirm_req[r].pc = "record"
    /\ confirm_req' = [confirm_req EXCEPT ![r] = IdleReq]
    /\ UNCHANGED <<walletTables, settings, pendingTables, group_deductions, history,
                   debtVars, optVars, stlVars, apiVars, expVars>>

ConfirmRemove(r) ==
    /\ confirm_req[r].pc = "remove"
    /\ cancel_pending_deduction(confirm_req[r].pending_id)
    /\ confirm_req' = [confirm_req EXCEPT ![r] = IdleReq]
    /\ UNCHANGED <<walletTables, settings, next_pending_id, group_deductions, history,
                   debtVars, optVars, stlVars, apiVars, expVars>>

ConfirmPayment ==
    \E r \in Requests :
        \/ ConfirmRead(r)
        \/ ConfirmDebit(r)
        \/ ConfirmDebitNoWallet(r)
        \/ ConfirmRecord(r)
        \/ ConfirmRecordFails(r)
        \/ ConfirmRemove(r)

\* -------------------------------------------------------- debt ledger
DebtUsers == {1, 2, 3}
Groups == {1}
Deltas == (-MaxDelta)..MaxDelta

DebtKey(g, d, c, cur) == <<g, d, c, cur>>

KeyOf(row) == DebtKey(row.group_id, row.debtor_user_id, row.creditor_user_id, row.currency)

RowsOf(rows, key) == {row \in rows : KeyOf(row) = key}

AmountsOf(rows, key) == {row.amount : row \in RowsOf(rows, key)}

DebtRow(g, d, c, amount, cur) ==
    [group_id |-> g, debtor_user_id |-> d, creditor_user_id |-> c,
     amount |-> amount, currency |-> cur]

\* Database.update_group_debts once its SELECT has executed: the table the
\* call commits.  "if existing" adds to the row, deletes it at zero; "else"
\* inserts a row with the amount handed in.
update_group_debts(rows, g, d, c, amount, cur) ==
    LET existing == RowsOf(rows, DebtKey(g, d, c, cur))
    IN  IF existing # {}
        THEN LET new_amount == (CHOOSE row \in existing : TRUE).amount + amount
             IN  IF new_amount = 0
                 THEN rows \ existing
                 ELSE (rows \ existing) \cup {DebtRow(g, d, c, new_amount, cur)}
        ELSE rows \cup {DebtRow(g, d, c, amount, cur)}

\* The SELECT is handed five parameters (group_id, debtor_id, creditor_id,
\* amount, currency) for four placeholders.  sqlite3 refuses such a
\* statement and the call raises before it reads or writes; a call that gets
\* past the SELECT commits update_group_debts.  Both outcomes are kept.
Outcomes == {"raised", "committed"}

LogCall(g, d, c, amount, cur, outcome) ==
    LET entry == [key |-> DebtKey(g, d, c, cur), amount |-> amount,
                  before |-> AmountsOf(group_debts, DebtKey(g, d, c, cur)),
                  raised |-> outcome = "raised"]
    IN  IF debt_log = <<>> THEN <<entry>> ELSE <<debt_log[Len(debt_log)], entry>>

CallUpdateGroupDebts(g, d, c, amount, cur, outcome) ==
    /\ group_debts' = IF outcome = "raised" THEN group_debts
                      ELSE update_group_debts(group_debts, g, d, c, amount, cur)
    /\ debt_log' = LogCall(g, d, c, amount, cur, outcome)
    /\ debt_calls' = debt_calls + 1

\* a caller of the Database API
UpdateGroupDebts ==
    /\ debt_calls < MaxDebtCalls
    /\ \E g \in Groups, d \in DebtUsers, c \in DebtUsers, a \in Deltas, cur \in Currencies,
          outcome \in Outcomes :
          CallUpdateGroupDebts(g, d, c, a, cur, outcome)
    /\ UNCHANGED <<group_expenses, split>>
    /\ UNCHANGED <<ledgerVars, optVars, stlVars, apiVars, expVars>>

\* ------------------------------------------------ split_equally callback
\* main.py handle_callback_query, branch split_equally.  group_expense_states
\* holds the group, payer, amount, currency and the selected participants of
\* the user who is entering a group expense.
IdleSplit == [pc |-> "idle", group_id |-> 0, payer_id |-> 0, amount |-> 0,
              currency |-> "VND", selected |-> <<>>, idx |-> 0]

\* the amounts entered, in the smallest unit Decimal division keeps
ExpenseAmounts == {10}

\* the users who enter expenses, and the participant lists they select, in
\* the order the participants were toggled: nobody, the payer alone, another
\* user alone, two users in either order, everybody
Payers == {1, 2}
Selections == {<<>>, <<1>>, <<2>>, <<1, 2>>, <<2, 1>>, <<1, 2, 3>>}

\* Decimal division: the quotient rounded half-even to the last digit kept
DecimalDiv(a, n) == Quantize(a, n)

\* the state a user builds before pressing "split equally"; a state left by
\* a handler that raised can be replaced by a new one
SplitStart ==
    /\ split.pc \in {"idle", "ready"}
    /\ \E g \in Groups, payer \in Payers, a \in ExpenseAmounts, cur \in Currencies,
          sel \in Selections :
          split' = [pc |-> "ready", group_id |-> g, payer_id |-> payer, amount |-> a,
                    currency |-> cur, selected |-> sel, idx |-> 0]
    /\ UNCHANGED <<group_debts, group_expenses, debt_log, debt_calls>>
    /\ UNCHANGED <<ledgerVars, optVars, stlVars, apiVars, expVars>>

\* share_amount = state['amount'] / len(selected)
ShareAmount(amount, selected) == DecimalDiv(amount, Len(selected))

\* "if not selected: ... return", else Database.create_group_expense
SplitCreateExpense ==
    /\ split.pc = "ready"
    /\ IF split.selected = <<>>
       THEN UNCHANGED <<split, group_expenses>>
       ELSE /\ Len(group_expenses) < MaxExpenses
            /\ group_expenses' = Append(group_expenses,
                  [group_id |-> split.group_id, payer_user_id |-> split.payer_id,
                   amount |-> split.amount, currency |-> split.currency,
                   participants |-> {}])
            /\ split' = [split EXCEPT !.pc = "participants"]
    /\ UNCHANGED <<group_debts, debt_log, debt_calls>>
    /\ UNCHANGED <<ledgerVars, optVars, stlVars, apiVars, expVars>>

\* Database.add_expense_participants for the expense just created
SplitAddParticipants ==
    /\ split.pc = "participants"
    /\ group_expenses' = [group_expenses EXCEPT ![Len(group_expenses)].participants =
          {[user_id |-> split.selected[i],
            share_amount |-> ShareAmount(split.amount, split.selected)] :
              i \in DOMAIN split.selected}]
    /\ split' = [split EXCEPT !.pc = "debts", !.idx = 1]
    /\ UNCHANGED <<group_debts, debt_log, debt_calls>>
    /\ UNCHANGED <<ledgerVars, optVars, stlVars, apiVars, expVars>>

\* "for participant_id in selected: await db.update_group_debts(...)": one
\* call per step, split.idx is the index of the next participant.  An
\* exception ends the handler with the state kept; the last call is followed
\* by "del group_expense_states[user_id]".
SplitDebtStep ==
    /\ split.pc = "debts"
    /\ \E outcome \in Outcomes :
          /\ CallUpdateGroupDebts(split.group_id, split.selected[split.idx], split.payer_id,
                                  ShareAmount(split.amount, split.selected),
                                  split.currency, outcome)
          /\ split' = IF outcome = "raised"
                      THEN [split EXCEPT !.pc = "ready", !.idx = 0]
                      ELSE IF split.idx = Len(split.selected) THEN IdleSplit
                      ELSE [split EXCEPT !.idx = @ + 1]
    /\ UNCHANGED group_expenses
    /\ UNCHANGED <<ledgerVars, optVars, stlVars, apiVars, expVars>>

\* the same while the calls made stay within the bound
SplitUpdateDebt == debt_calls < MaxDebtCalls /\ SplitDebtStep

DebtInit ==
    /\ group_debts = {}
    /\ group_expenses = <<>>
    /\ split = IdleSplit
    /\ debt_log = <<>>
    /\ debt_calls = 0

\* ---------------------------------------------------- debt optimizer
\* Database.optimize_group_debts(group_id, currency), applied to the rows
\* of one group.  Amounts are in units of 0.01.
DebtKeys == {<<d, c, cur>> : d \in DebtUsers, c \in DebtUsers, cur \in Currencies}

OptRow(key, amount) ==
    [debtor_user_id |-> key[1], creditor_user_id |-> key[2], currency |-> key[3],
     amount |-> amount]

\* tables of at most MaxRows rows, one row per key (the UNIQUE constraint)
KeySets == UNION {{{f[i] : i \in 1..n} : f \in [1..n -> DebtKeys]} : n \in 0..MaxRows}

OptTables == UNION {[K -> 0..MaxDebt] : K \in KeySets}

\* Database.get_group_debts: the rows "WHERE amount > 0 ORDER BY amount DESC",
\* rows of equal amount in any order
get_group_debts(table) ==
    LET keys == {k \in DOMAIN table : table[k] > 0}
        n == Cardinality(keys)
    IN  {[i \in 1..n |-> OptRow(f[i], table[f[i]])] :
            f \in {g \in [1..n -> keys] :
                     /\ \A i \in 1..n, j \in 1..n : g[i] = g[j] => i = j
                     /\ \A i \in 1..n, j \in 1..n : i < j => table[g[i]] >= table[g[j]]}}

PositionOf(balances, user_id) ==
    CHOOSE i \in DOMAIN balances : balances[i].user_id = user_id

\* "if user not in balances: balances[user] = Decimal('0')"
WithUser(balances, user_id) ==
    IF \E i \in DOMAIN balances : balances[i].user_id = user_id
    THEN balances
    ELSE Append(balances, [user_id |-> user_id, amount |-> 0])

\* a balance map that keeps the last amount instead of the sum
AddToOverwrite(balances, user_id, amount) ==
    [balances EXCEPT ![PositionOf(balances, user_id)].amount = amount]

\* "balances[debtor] -= debt.amount" / "balances[creditor] += debt.amount"
AddTo(balances, user_id, amount) ==
    [balances EXCEPT ![PositionOf(balances, user_id)].amount = @ + amount]

\* the "for debt, debtor, creditor in debts" loop: the balance map, in the
\* insertion order of its keys
RECURSIVE BuildBalances(_, _, _, _)
BuildBalances(debts, currency, k, balances) ==
    IF k > Len(debts) THEN balances
    ELSE IF debts[k].currency # currency
         THEN BuildBalances(debts, currency, k + 1, balances)
         ELSE LET b0 == WithUser(WithUser(balances, debts[k].debtor_user_id),
                                 debts[k].creditor_user_id)
                  b1 == AddTo(b0, debts[k].debtor_user_id, -debts[k].amount)
                  b2 == AddTo(b1, debts[k].creditor_user_id, debts[k].amount)
              IN  BuildBalances(debts, currency, k + 1, b2)

Creditors(balances) ==
    LET positive(e) == e.amount > 0 IN SelectSeq(balances, positive)

\* the debtors with their balances as they are, below zero
DebtorsSigned(balances) ==
    LET negative(e) == e.amount < 0 IN SelectSeq(balances, negative)

Debtors(balances) ==
    LET negative(e) == e.amount < 0
        owed == SelectSeq(balances, negative)
    IN  [i \in DOMAIN owed |-> [user_id |-> owed[i].user_id, amount |-> -owed[i].amount]]

\* list.sort(key=amount, reverse=True): stable, equal amounts keep their order
RECURSIVE SortDescending(_)
SortDescending(list) ==
    IF list = <<>> THEN <<>>
    ELSE LET rest == SortDescending(SubSeq(list, 1, Len(list) - 1))
             x == list[Len(list)]
             n == Cardinality({i \in DOMAIN rest : rest[i].amount >= x.amount})
         IN  SubSeq(rest, 1, n) \o <<x>> \o SubSeq(rest, n + 1, Len(rest))

\* a transfer of one unit at a time
OneUnit(a, b) == IF a <= 0 \/ b <= 0 THEN 0 ELSE 1

\* min(credit_amount, debt_amount)
Min(a, b) == IF a <= b THEN a ELSE b

\* an entry counts as settled once what is left of it is at most one unit
SettledWithinUnit(amount) == amount <= 1

\* "if creditors[i][1] == 0" / "if debtors[j][1] == 0"
Settled(amount) == amount = 0

IdleOpt == [pc |-> "idle", currency |-> "VND", creditors |-> <<>>, debtors |-> <<>>,
            i |-> 0, j |-> 0, transactions |-> <<>>]

\* the call, up to the loop: fetch, balance map, the two sorted lists
OptStart ==
    /\ opt.pc = "idle"
    /\ \E currency \in Currencies, debts \in get_group_debts(opt_rows) :
          LET balances == BuildBalances(debts, currency, 1, <<>>)
          IN  opt' = [pc |-> "loop", currency |-> currency,
                      creditors |-> SortDescending(Creditors(balances)),
                      debtors |-> SortDescending(Debtors(balances)),
                      i |-> 1, j |-> 1, transactions |-> <<>>]
    /\ UNCHANGED <<opt_rows, stlVars, ledgerVars, debtVars, apiVars, expVars>>

\* one iteration of "while i < len(creditors) and j < len(debtors)" (i and j
\* count from 1 here)
OptStep ==
    /\ opt.pc = "loop"
    /\ opt.i <= Len(opt.creditors)
    /\ opt.j <= Len(opt.debtors)
    /\ LET credit_amount == opt.creditors[opt.i].amount
           debt_amount == opt.debtors[opt.j].amount
           transfer_amount == Min(credit_amount, debt_amount)
       IN  opt' = [opt EXCEPT
                     !.transactions = Append(@,
                         [debtor |-> opt.debtors[opt.j].user_id,
                          creditor |-> opt.creditors[opt.i].user_id,
                          amount |-> transfer_amount]),
                     !.creditors[opt.i].amount = credit_amount - transfer_amount,
                     !.debtors[opt.j].amount = debt_amount - transfer_amount,
                     !.i = IF Settled(credit_amount - transfer_amount) THEN @ + 1 ELSE @,
                     !.j = IF Settled(debt_amount - transfer_amount) THEN @ + 1 ELSE @]
    /\ UNCHANGED <<opt_rows, stlVars, ledgerVars, debtVars, apiVars, expVars>>

\* the loop condition fails: "return transactions"
OptReturn ==
    /\ opt.pc = "loop"
    /\ ~(opt.i <= Len(opt.creditors) /\ opt.j <= Len(opt.debtors))
    /\ opt' = [opt EXCEPT !.pc = "done"]
    /\ UNCHANGED <<opt_rows, stlVars, ledgerVars, debtVars, apiVars, expVars>>

\* ------------------------------------------------- settlement service
\* SettlementService.calculate_settlements(balances).  The balances handed
\* in are in units of 0.005, the lists it works on in units of 0.01.
BalanceInputs == {5 * k : k \in (-2 * MaxCents)..(2 * MaxCents)}

\* lists of (user, balance), each user at most once
BalanceLists ==
    {list \in UNION {[1..n -> [user : DebtUsers, balance : BalanceInputs]] :
                        n \in 0..Cardinality(DebtUsers)} :
        \A i \in DOMAIN list, j \in DOMAIN list : list[i].user = list[j].user => i = j}

\* balance.quantize(Decimal('0.01'))
QuantizeToCents(balance) == Quantize(balance, 10)

Abs(x) == IF x < 0 THEN -x ELSE x

\* "if abs(rounded_balance) >= Decimal('0.01')"
SignificantBalances(balances) ==
    LET rounded == [i \in DOMAIN balances |->
                       [user_id |-> balances[i].user,
                        amount |-> QuantizeToCents(balances[i].balance)]]
        significant(e) == Abs(e.amount) >= 1
    IN  SelectSeq(rounded, significant)

\* "if debt_amount <= Decimal('0.01')" / "if credit_amount <= Decimal('0.01')"
Popped(amount) == amount <= 1

Tail1(list) == SubSeq(list, 2, Len(list))

IdleStl == [pc |-> "idle", debtors |-> <<>>, creditors |-> <<>>, settlements |-> <<>>]

\* the call, up to the loop; "if not significant_balances: return []"
StlStart ==
    /\ stl.pc = "idle"
    /\ LET significant == SignificantBalances(stl_balances)
       IN  stl' = [pc |-> IF significant = <<>> THEN "done" ELSE "loop",
                   debtors |-> SortDescending(Debtors(significant)),
                   creditors |-> SortDescending(Creditors(significant)),
                   settlements |-> <<>>]
    /\ UNCHANGED <<stl_balances, optVars, ledgerVars, debtVars, apiVars, expVars>>

\* one iteration of "while debtors and creditors"
StlStep ==
    /\ stl.pc = "loop"
    /\ stl.debtors # <<>>
    /\ stl.creditors # <<>>
    /\ LET debt_amount == stl.debtors[1].amount
           credit_amount == stl.creditors[1].amount
           transfer_amount == Min(debt_amount, credit_amount)
       IN  stl' = [stl EXCEPT
                     !.settlements = Append(@,
                         [debtor |-> stl.debtors[1].user_id,
                          creditor |-> stl.creditors[1].user_id,
                          amount |-> transfer_amount]),
                     !.debtors = IF Popped(debt_amount - transfer_amount)
                                 THEN Tail1(@)
                                 ELSE [@ EXCEPT ![1].amount = debt_amount - transfer_amount],
                     !.creditors = IF Popped(credit_amount - transfer_amount)
                                   THEN Tail1(@)
                                   ELSE [@ EXCEPT ![1].amount =
                                            credit_amount - transfer_amount]]
    /\ UNCHANGED <<stl_balances, optVars, ledgerVars, debtVars, apiVars, expVars>>

\* one of the lists is empty: "return settlements"
StlReturn ==
    /\ stl.pc = "loop"
    /\ (stl.debtors = <<>> \/ stl.creditors = <<>>)
    /\ stl' = [stl EXCEPT !.pc = "done"]
    /\ UNCHANGED <<stl_balances, optVars, ledgerVars, debtVars, apiVars, expVars>>

\* no optimizer or settlement call in progress
OptIdle ==
    /\ opt_rows = << >>
    /\ opt = IdleOpt
    /\ stl_balances = <<>>
    /\ stl = IdleStl

\* --------------------------------------- Database calls in progress
\* A Database method opens a connection of its own.  Python's sqlite3 runs a
\* SELECT outside any transaction and opens one before the first INSERT,
\* UPDATE or DELETE; from there to the commit the connection holds the write
\* lock, and the other connections go on reading the committed tables.
Callers == {1, 2}

IdleCall == [pc |-> "idle"]

ApiIdle ==
    /\ calls = [c \in Callers |-> IdleCall]
    /\ db_lock = {}

\* a call that has returned or raised
Finished(c, result) == [calls[c] EXCEPT !.pc = "done", !.result = result]

\* the statement needs the write lock and another connection holds it: the
\* call waits, and raises "database is locked" when the wait times out
LockedOut(c) == db_lock # {} /\ c \notin db_lock

\* ---- Database.update_wallet_balance, statement by statement
\* the deltas of the calls: added or taken, up to more than a wallet starts with
BalanceDeltas == {d \in (-MaxAmount - 1)..(MaxAmount + 1) : d # 0}

\* the ids the calls name: those of the wallets and one that is no wallet's
WalletIds == 1..(MaxWallets + 1)

\* the same with an "insufficient funds" rejection
UwbSelectNoOverdraft(c) ==
    /\ calls[c].pc = "idle"
    /\ \E wallet_id \in WalletIds, delta_amount \in BalanceDeltas :
          calls' = [calls EXCEPT ![c] =
              IF /\ wallet_id \in DOMAIN user_wallets
                 /\ user_wallets[wallet_id].current_balance + delta_amount >= 0
              THEN [pc |-> "read", op |-> "update_wallet_balance",
                    wallet_id |-> wallet_id, delta_amount |-> delta_amount,
                    found |-> TRUE, row |-> user_wallets[wallet_id].current_balance,
                    result |-> "none"]
              ELSE [pc |-> "done", op |-> "update_wallet_balance",
                    wallet_id |-> wallet_id, delta_amount |-> delta_amount,
                    found |-> FALSE, row |-> 0, result |-> "False"]]
    /\ UNCHANGED <<db_lock, ledgerVars, debtVars, optVars, stlVars, expVars>>

\* "SELECT current_balance FROM user_wallets WHERE id = ?"; "if not row:
\* return False"
UwbSelect(c) ==
    /\ calls[c].pc = "idle"
    /\ \E wallet_id \in WalletIds, delta_amount \in BalanceDeltas :
          calls' = [calls EXCEPT ![c] =
              IF wallet_id \in DOMAIN user_wallets
              THEN [pc |-> "read", op |-> "update_wallet_balance",
                    wallet_id |-> wallet_id, delta_amount |-> delta_amount,
                    found |-> TRUE, row |-> user_wallets[wallet_id].current_balance,
                    result |-> "none"]
              ELSE [pc |-> "done", op |-> "update_wallet_balance",
                    wallet_id |-> wallet_id, delta_amount |-> delta_amount,
                    found |-> FALSE, row |-> 0, result |-> "False"]]
    /\ UNCHANGED <<db_lock, ledgerVars, debtVars, optVars, stlVars, expVars>>

\* "UPDATE user_wallets SET current_balance = ?": opens the transaction
UwbUpdate(c) ==
    /\ calls[c].pc = "read"
    /\ db_lock = {}
    /\ db_lock' = {c}
    /\ calls' = [calls EXCEPT ![c].pc = "updated"]
    /\ UNCHANGED <<ledgerVars, debtVars, optVars, stlVars, expVars>>

\* "INSERT INTO wallet_adjustments", in the same transaction
UwbInsert(c) ==
    /\ calls[c].pc = "updated"
    /\ calls' = [calls EXCEPT ![c].pc = "inserted"]
    /\ UNCHANGED <<db_lock, ledgerVars, debtVars, optVars, stlVars, expVars>>

\* "await db.commit(); return True": both writes become visible.  The UPDATE
\* changes the row of the wallet if it is still there.
UwbCommit(c) ==
    /\ calls[c].pc = "inserted"
    /\ LET q == calls[c]
       IN  /\ user_wallets' =
                 IF q.wallet_id \in DOMAIN user_wallets
                 THEN [user_wallets EXCEPT ![q.wallet_id].current_balance =
                           NewBalance(q.row, q.delta_amount)]
                 ELSE user_wallets
           /\ wallet_adjustments' = Append(wallet_adjustments,
                 AdjustmentRow(q.wallet_id, q.delta_amount, "Nạp tiền"))
    /\ db_lock' = {}
    /\ calls' = [calls EXCEPT ![c] = Finished(c, "True")]
    /\ UNCHANGED <<next_wallet_id, settings, pendingTables, group_deductions,
                   confirm_req, history, debtVars, optVars, stlVars, expVars>>

\* a raise on a connection that commits every statement as it is executed:
\* the UPDATE stays
UwbRaiseAutocommit(c) ==
    /\ \/ calls[c].pc = "read" /\ LockedOut(c)
       \/ calls[c].pc \in {"updated", "inserted"}
    /\ db_lock' = db_lock \ {c}
    /\ calls' = [calls EXCEPT ![c] = Finished(c, "raised")]
    /\ user_wallets' =
          IF calls[c].pc # "read" /\ calls[c].wallet_id \in DOMAIN user_wallets
          THEN [user_wallets EXCEPT ![calls[c].wallet_id].current_balance =
                    NewBalance(calls[c].row, calls[c].delta_amount)]
          ELSE user_wallets
    /\ UNCHANGED <<next_wallet_id, wallet_adjustments, settings, pendingTables,
                   group_deductions, confirm_req, history,
                   debtVars, optVars, stlVars, expVars>>

\* a statement raises (the lock wait times out, the disk is full): the
\* connection is closed without a commit and the transaction is rolled back
UwbRaise(c) ==
    /\ \/ calls[c].pc = "read" /\ LockedOut(c)
       \/ calls[c].pc \in {"updated", "inserted"}
    /\ db_lock' = db_lock \ {c}
    /\ calls' = [calls EXCEPT ![c] = Finished(c, "raised")]
    /\ UNCHANGED <<ledgerVars, debtVars, optVars, stlVars, expVars>>

\* delete_wallet by another connection, a transaction of one statement
DeleteWalletUnlocked ==
    /\ db_lock = {}
    /\ DeleteWallet

\* create_wallet by another connection (statement by statement below)
CreateWalletUnlocked ==
    /\ db_lock = {}
    /\ CreateWallet

UpdateWalletBalance ==
    \E c \in Callers :
        \/ UwbSelect(c)
        \/ UwbUpdate(c)
        \/ UwbInsert(c)
        \/ UwbCommit(c)
        \/ UwbRaise(c)

\* the caller has its answer and may call again
Return(c) ==
    /\ calls[c].pc = "done"
    /\ calls' = [calls EXCEPT ![c] = IdleCall]
    /\ UNCHANGED <<db_lock, ledgerVars, debtVars, optVars, stlVars, expVars>>

\* no call is in progress
Quiet == \A c \in Callers : calls[c].pc = "idle"

\* one caller making one call after the other
Caller1 == CHOOSE c \in Callers : \A d \in Callers : c <= d

CreateWalletQuiet == Quiet /\ CreateWallet

DeleteWalletQuiet == Quiet /\ DeleteWallet

UwbNext ==
    \/ Len(wallet_adjustments) < MaxAdjustments /\ UwbSelect(Caller1)
    \/ UwbUpdate(Caller1)
    \/ UwbInsert(Caller1)
    \/ UwbCommit(Caller1)
    \/ UwbRaise(Caller1)
    \/ Return(Caller1)

\* ---- Database.update_group_debts, statement by statement
\* the SELECT: it raises (see Outcomes), or the call goes on with the amount
\* it found for its key; first tells whether no other call was in progress
DebtSelect(c) ==
    /\ calls[c].pc = "idle"
    /\ \E g \in Groups, d \in DebtUsers, cr \in DebtUsers, a \in Deltas,
          cur \in Currencies, outcome \in Outcomes :
          calls' = [calls EXCEPT ![c] =
              [pc |-> IF outcome = "raised" THEN "done" ELSE "read",
               op |-> "update_group_debts",
               key |-> DebtKey(g, d, cr, cur), amount |-> a,
               existing |-> AmountsOf(group_debts, DebtKey(g, d, cr, cur)),
               first |-> Quiet,
               result |-> IF outcome = "raised" THEN "raised" ELSE "none"]]
    /\ UNCHANGED <<db_lock, ledgerVars, debtVars, optVars, stlVars, expVars>>

\* the DELETE, UPDATE or INSERT the call chose from what it read: it opens
\* the transaction
DebtWrite(c) ==
    /\ calls[c].pc = "read"
    /\ db_lock = {}
    /\ calls[c].existing = {} => RowsOf(group_debts, calls[c].key) = {}
    /\ db_lock' = {c}
    /\ calls' = [calls EXCEPT ![c].pc = "written"]
    /\ UNCHANGED <<ledgerVars, debtVars, optVars, stlVars, expVars>>

\* the INSERT of a call that found no row, after another call has inserted
\* one: UNIQUE (group_id, debtor_user_id, creditor_user_id, currency) fails
DebtInsertFails(c) ==
    /\ calls[c].pc = "read"
    /\ db_lock = {}
    /\ calls[c].existing = {}
    /\ RowsOf(group_debts, calls[c].key) # {}
    /\ calls' = [calls EXCEPT ![c] = Finished(c, "raised")]
    /\ UNCHANGED <<db_lock, ledgerVars, debtVars, optVars, stlVars, expVars>>

\* the table after the statement of a call: DELETE and UPDATE change the
\* rows of the key that are there, INSERT adds a row
DebtStatement(rows, key, existing, amount) ==
    IF existing = {} THEN rows \cup {DebtRow(key[1], key[2], key[3], amount, key[4])}
    ELSE LET new_amount == (CHOOSE x \in existing : TRUE) + amount
         IN  IF new_amount = 0 THEN rows \ RowsOf(rows, key)
             ELSE IF RowsOf(rows, key) = {} THEN rows
             ELSE (rows \ RowsOf(rows, key))
                  \cup {DebtRow(key[1], key[2], key[3], new_amount, key[4])}

\* "await db.commit()"
DebtCommit(c) ==
    /\ calls[c].pc = "written"
    /\ group_debts' = DebtStatement(group_debts, calls[c].key, calls[c].existing,
                                    calls[c].amount)
    /\ db_lock' = {}
    /\ calls' = [calls EXCEPT ![c] = Finished(c, "None")]
    /\ UNCHANGED <<group_expenses, split, debt_log, debt_calls>>
    /\ UNCHANGED <<ledgerVars, optVars, stlVars, expVars>>

UpdateGroupDebtsCalls ==
    \E c \in Callers :
        \/ DebtSelect(c)
        \/ DebtWrite(c)
        \/ DebtInsertFails(c)
        \/ DebtCommit(c)

\* ---- Database.create_wallet, statement by statement
\* the wallets ever created while creations are followed one statement at
\* a time
MaxCreated == MaxWallets + 1

CreateCall(user_id, currency, initial_amount) ==
    [op |-> "create_wallet", user_id |-> user_id, currency |-> currency,
     initial_amount |-> initial_amount]

\* an INSERT into a table without the UNIQUE(user_id, currency) constraint
CwInsertNoUnique(c) ==
    /\ calls[c].pc = "idle"
    /\ db_lock = {}
    /\ \E u \in Users, cur \in Currencies, a \in InitialAmounts :
          /\ next_wallet_id <= MaxCreated
          /\ Len(wallet_adjustments) < MaxAdjustments
          /\ calls' = [calls EXCEPT ![c] =
                          CreateCall(u, cur, a) @@ [pc |-> "inserted", result |-> "none"]]
          /\ db_lock' = {c}
    /\ UNCHANGED <<ledgerVars, debtVars, optVars, stlVars, expVars>>

\* "INSERT INTO user_wallets ...": sqlite3 opens the transaction and takes
\* the write lock; the statement raises IntegrityError when a committed row
\* has the same (user_id, currency), and the connection closes with nothing
\* written
CwInsert(c) ==
    /\ calls[c].pc = "idle"
    /\ db_lock = {}
    /\ \E u \in Users, cur \in Currencies, a \in InitialAmounts :
          IF WalletOf(u, cur) # {}
          THEN /\ calls' = [calls EXCEPT ![c] =
                               CreateCall(u, cur, a) @@ [pc |-> "done", result |-> "raised"]]
               /\ UNCHANGED db_lock
          ELSE /\ next_wallet_id <= MaxCreated
               /\ Len(wallet_adjustments) < MaxAdjustments
               /\ calls' = [calls EXCEPT ![c] =
                               CreateCall(u, cur, a) @@ [pc |-> "inserted", result |-> "none"]]
               /\ db_lock' = {c}
    /\ UNCHANGED <<ledgerVars, debtVars, optVars, stlVars, expVars>>

\* the INSERT waits for a lock another connection holds and gives up:
\* "database is locked"
CwLocked(c) ==
    /\ calls[c].pc = "idle"
    /\ LockedOut(c)
    /\ \E u \in Users, cur \in Currencies, a \in InitialAmounts :
          calls' = [calls EXCEPT ![c] =
                       CreateCall(u, cur, a) @@ [pc |-> "done", result |-> "raised"]]
    /\ UNCHANGED <<db_lock, ledgerVars, debtVars, optVars, stlVars, expVars>>

\* "INSERT INTO wallet_adjustments ... 'Tạo ví mới'"
CwInsertAdjustment(c) ==
    /\ calls[c].pc = "inserted"
    /\ calls' = [calls EXCEPT ![c].pc = "logged"]
    /\ UNCHANGED <<db_lock, ledgerVars, debtVars, optVars, stlVars, expVars>>

\* "await db.commit()": both rows become visible and the lock is released
CwCommit(c) ==
    /\ calls[c].pc = "logged"
    /\ create_wallet(calls[c].user_id, calls[c].currency, calls[c].initial_amount)
    /\ calls' = [calls EXCEPT ![c] = Finished(c, "created")]
    /\ db_lock' = {}
    /\ UNCHANGED <<exchange_rates, settings, pendingTables, group_deductions,
                   confirm_req, history>>
    /\ UNCHANGED <<debtVars, optVars, stlVars, expVars>>

\* the connection closes before the commit: the transaction is rolled back
CwRaise(c) ==
    /\ calls[c].pc \in {"inserted", "logged"}
    /\ calls' = [calls EXCEPT ![c] = Finished(c, "raised")]
    /\ db_lock' = {}
    /\ UNCHANGED <<ledgerVars, debtVars, optVars, stlVars, expVars>>

CreateWalletCalls ==
    \E c \in Callers :
        \/ CwInsert(c)
        \/ CwLocked(c)
        \/ CwInsertAdjustment(c)
        \/ CwCommit(c)
        \/ CwRaise(c)
        \/ Return(c)

\* ------------------------------------------------- personal expenses
\* timedelta(hours=24), in ticks of twelve hours
UndoWindow == 2

\* a handler that has ended; debited and recorded tell what its last run did
FlowEnd(took, wrote) == [pc |-> "idle", debited |-> took, recorded |-> wrote]

IdleFlow == FlowEnd(FALSE, FALSE)

ExpIdle ==
    /\ personal_expenses = <<>>
    /\ next_expense_id = 1
    /\ now = 0
    /\ pflow = IdleFlow
    /\ undone = <<>>

\* datetime.now() moves on
Tick ==
    /\ now < MaxClock
    /\ now' = now + 1
    /\ UNCHANGED <<personal_expenses, next_expense_id, pflow, undone>>
    /\ UNCHANGED <<ledgerVars, debtVars, optVars, stlVars, apiVars>>

\* a datetime bound as a parameter is stored as its ISO text, to the
\* microsecond
adapt_datetime(t) == [iso |-> t]

\* datetime.fromisoformat on the stored text
fromisoformat(text) == text.iso

\* Database.add_personal_expense: every caller leaves fx_rate and
\* converted_amount out, so both are stored as NULL; created_at is the
\* column's DEFAULT CURRENT_TIMESTAMP
add_personal_expense(user_id, amount, currency, wallet_id, debited) ==
    /\ personal_expenses' =
          [x \in DOMAIN personal_expenses \cup {next_expense_id} |->
              IF x = next_expense_id
              THEN [user_id |-> user_id, amount |-> amount, currency |-> currency,
                    wallet_id |-> wallet_id, converted_amount |-> NullAmount,
                    created_at |-> now,
                    undo_until |-> adapt_datetime(now + UndoWindow), debited |-> debited]
              ELSE personal_expenses[x]]
    /\ next_expense_id' = next_expense_id + 1

\* room for one more expense and its debit
RoomForExpense ==
    /\ next_expense_id <= MaxPersonal
    /\ Len(wallet_adjustments) < MaxAdjustments

\* process_personal_expense: "wallet = await db.get_wallet_by_currency(...)";
\* without a wallet of the currency the handler only offers to convert or to
\* create one
PeStartA ==
    /\ pflow.pc = "idle"
    /\ RoomForExpense
    /\ \E u \in Users, a \in Amounts, cur \in Currencies :
          pflow' = IF WalletOf(u, cur) = {} THEN IdleFlow
                   ELSE [pc |-> "A_debit", user_id |-> u, amount |-> a, currency |-> cur,
                         wallet_id |-> CHOOSE w \in WalletOf(u, cur) : TRUE,
                         debited |-> FALSE, recorded |-> FALSE]
    /\ UNCHANGED <<personal_expenses, next_expense_id, now, undone>>
    /\ UNCHANGED <<ledgerVars, debtVars, optVars, stlVars, apiVars>>

\* "success = await db.update_wallet_balance(wallet.id, -amount, ...)";
\* "else: Lỗi khi cập nhật ví"
PeDebitA ==
    /\ pflow.pc = "A_debit"
    /\ IF pflow.wallet_id \in DOMAIN user_wallets
       THEN /\ update_wallet_balance(pflow.wallet_id, -pflow.amount, "Chi tiêu cá nhân")
            /\ pflow' = [pflow EXCEPT !.pc = "A_record", !.debited = TRUE]
       ELSE /\ UNCHANGED <<user_wallets, wallet_adjustments>>
            /\ pflow' = IdleFlow
    /\ UNCHANGED <<next_wallet_id, settings, pendingTables, group_deductions,
                   confirm_req, history>>
    /\ UNCHANGED <<personal_expenses, next_expense_id, now, undone>>
    /\ UNCHANGED <<debtVars, optVars, stlVars, apiVars>>

\* "expense = await db.add_personal_expense(...)"
PeRecordA ==
    /\ pflow.pc = "A_record"
    /\ add_personal_expense(pflow.user_id, pflow.amount, pflow.currency, pflow.wallet_id,
                            pflow.amount)
    /\ pflow' = FlowEnd(TRUE, TRUE)
    /\ UNCHANGED <<now, undone>>
    /\ UNCHANGED <<ledgerVars, debtVars, optVars, stlVars, apiVars>>

\* handle_message, action add_expense: "wallet = await db.get_wallet(wallet_id)"
\* for the wallet chosen before, then add_personal_expense; wallet.currency
\* of a wallet that is gone raises and the handler ends
PeRecordB ==
    /\ pflow.pc = "idle"
    /\ RoomForExpense
    /\ \E u \in Users, a \in Amounts, w \in 1..MaxWallets :
          IF w \in DOMAIN user_wallets
          THEN /\ add_personal_expense(u, a, user_wallets[w].currency, w, 0)
               /\ pflow' = [pc |-> "B_debit", user_id |-> u, amount |-> a,
                             currency |-> user_wallets[w].currency, wallet_id |-> w,
                             expense_id |-> next_expense_id,
                             debited |-> FALSE, recorded |-> TRUE]
          ELSE /\ UNCHANGED <<personal_expenses, next_expense_id>>
               /\ pflow' = IdleFlow
    /\ UNCHANGED <<now, undone>>
    /\ UNCHANGED <<ledgerVars, debtVars, optVars, stlVars, apiVars>>

\* "success = await db.update_wallet_balance(wallet_id, -amount, ...)"; on
\* False the handler answers that the expense was recorded all the same
PeDebitB ==
    /\ pflow.pc = "B_debit"
    /\ IF pflow.wallet_id \in DOMAIN user_wallets
       THEN /\ update_wallet_balance(pflow.wallet_id, -pflow.amount,
                                     "Chi tiêu: Chi tiêu cá nhân")
            /\ personal_expenses' =
                  IF pflow.expense_id \in DOMAIN personal_expenses
                  THEN [personal_expenses EXCEPT ![pflow.expense_id].debited = pflow.amount]
                  ELSE personal_expenses
            /\ pflow' = FlowEnd(TRUE, TRUE)
       ELSE /\ UNCHANGED <<user_wallets, wallet_adjustments, personal_expenses>>
            /\ pflow' = FlowEnd(FALSE, TRUE)
    /\ UNCHANGED <<next_wallet_id, settings, pendingTables, group_deductions,
                   confirm_req, history>>
    /\ UNCHANGED <<next_expense_id, now, undone>>
    /\ UNCHANGED <<debtVars, optVars, stlVars, apiVars>>

\* the second Database call of a handler raises, or the process stops
\* between the two: what the first call committed stays
PeFail ==
    /\ pflow.pc \in {"A_record", "B_debit"}
    /\ pflow' = FlowEnd(pflow.debited, pflow.recorded)
    /\ UNCHANGED <<personal_expenses, next_expense_id, now, undone>>
    /\ UNCHANGED <<ledgerVars, debtVars, optVars, stlVars, apiVars>>

\* ---- Database.undo_personal_expense
\* "restore_amount = Decimal(str(converted_amount)) if converted_amount else
\* Decimal(str(amount))"
RestoreAmount(row) ==
    IF row.converted_amount \in {NullAmount, 0} THEN row.amount ELSE row.converted_amount

\* a check that lets the deadline itself still pass
BeforeDeadlineInclusive(row, current_time) == current_time <= fromisoformat(row.undo_until)

\* "if not undo_until_dt or undo_until_dt <= current_time: return False",
\* negated
BeforeDeadline(row, current_time) == current_time < fromisoformat(row.undo_until)

\* the SELECT "WHERE id = ? AND user_id = ?" and the two "return False"
UndoSelect(c) ==
    /\ calls[c].pc = "idle"
    /\ Len(wallet_adjustments) < MaxAdjustments
    /\ \E expense_id \in 1..MaxPersonal, user_id \in Users :
          LET found == /\ expense_id \in DOMAIN personal_expenses
                       /\ personal_expenses[expense_id].user_id = user_id
              row == personal_expenses[expense_id]
              call == [op |-> "undo_personal_expense", expense_id |-> expense_id,
                       user_id |-> user_id, at |-> now, found |-> found,
                       credited |-> FALSE]
          IN  calls' = [calls EXCEPT ![c] =
                 IF found /\ BeforeDeadline(row, now)
                 THEN call @@ [pc |-> "credit", wallet_id |-> row.wallet_id,
                               restore_amount |-> RestoreAmount(row),
                               result |-> "none"]
                 ELSE call @@ [pc |-> "done", wallet_id |-> NoWallet,
                               restore_amount |-> NullAmount, result |-> "False"]]
    /\ UNCHANGED <<db_lock, ledgerVars, debtVars, optVars, stlVars, expVars>>

\* "await self.update_wallet_balance(wallet_id, restore_amount, ...)": a call
\* of its own, committed; what it returns is not looked at
UndoCredit(c) ==
    /\ calls[c].pc = "credit"
    /\ IF calls[c].wallet_id \in DOMAIN user_wallets
       THEN /\ update_wallet_balance(calls[c].wallet_id, calls[c].restore_amount,
                                     "Hoàn tác chi tiêu")
            /\ undone' = Append(undone, [expense_id |-> calls[c].expense_id,
                                         wallet_id |-> calls[c].wallet_id,
                                         amount |-> calls[c].restore_amount])
       ELSE UNCHANGED <<user_wallets, wallet_adjustments, undone>>
    /\ calls' = [calls EXCEPT ![c].pc = "delete",
                              ![c].credited = calls[c].wallet_id \in DOMAIN user_wallets]
    /\ UNCHANGED <<next_wallet_id, settings, pendingTables, group_deductions,
                   confirm_req, history>>
    /\ UNCHANGED <<personal_expenses, next_expense_id, now, pflow>>
    /\ UNCHANGED <<db_lock, debtVars, optVars, stlVars>>

\* "DELETE FROM personal_expenses WHERE id = ?", commit, "return True"
UndoDelete(c) ==
    /\ calls[c].pc = "delete"
    /\ personal_expenses' = [x \in DOMAIN personal_expenses \ {calls[c].expense_id} |->
                                personal_expenses[x]]
    /\ calls' = [calls EXCEPT ![c] = Finished(c, "True")]
    /\ UNCHANGED <<next_expense_id, now, pflow, undone>>
    /\ UNCHANGED <<db_lock, ledgerVars, debtVars, optVars, stlVars>>

\* ---- Database.delete_personal_expense
\* a DELETE that looks at the id only
HardDeletedAnyUser(rows, expense_id, user_id) ==
    [x \in DOMAIN rows \ {expense_id} |-> rows[x]]

\* the table after "DELETE FROM personal_expenses WHERE id = ? AND user_id = ?"
HardDeleted(rows, expense_id, user_id) ==
    [x \in {y \in DOMAIN rows : ~(y = expense_id /\ rows[y].user_id = user_id)} |-> rows[x]]

\* one statement and its commit; "return cursor.rowcount > 0"
DeletePersonalExpense(c) ==
    /\ calls[c].pc = "idle"
    /\ \E expense_id \in 1..MaxPersonal, user_id \in Users :
          LET left == HardDeleted(personal_expenses, expense_id, user_id)
          IN  /\ personal_expenses' = left
              /\ calls' = [calls EXCEPT ![c] =
                    [pc |-> "done", op |-> "delete_personal_expense",
                     expense_id |-> expense_id, user_id |-> user_id,
                     result |-> IF DOMAIN left # DOMAIN personal_expenses
                                THEN "True" ELSE "False"]]
    /\ UNCHANGED <<next_expense_id, now, pflow, undone>>
    /\ UNCHANGED <<db_lock, ledgerVars, debtVars, optVars, stlVars>>

UndoPersonalExpense(c) ==
    \/ UndoSelect(c)
    \/ UndoCredit(c)
    \/ UndoDelete(c)

\* ------------------------------------------------------ specifications
Init == LedgerInit /\ DebtInit /\ OptIdle /\ ApiIdle /\ ExpIdle

\* the same with an empty rate table, for the parts that use no rate
InitNoRates == NoRates /\ DebtInit /\ OptIdle /\ ApiIdle /\ ExpIdle

\* wallet ledger
WalletNext ==
    \/ CreateWallet
    \/ TopUp
    \/ Decrease
    \/ DeleteWallet

SpecWallet == Init /\ [][WalletNext]_vars

\* pending-deduction workflow over the wallet ledger
Next ==
    \/ CreateWallet
    \/ DeleteWallet
    \/ ProcessAutoDeduction
    \/ ManualDeduction
    \/ CancelPending
    \/ DbConfirmPending
    \/ ConfirmPayment

Spec == Init /\ [][Next]_vars

\* the pending-deduction workflow in a group whose ledger holds a debt
FrameDebts == {DebtRow(g, 1, 2, MaxDelta, "VND") : g \in Groups}

InitFrame ==
    /\ LedgerInit
    /\ group_debts = FrameDebts
    /\ group_expenses = <<>>
    /\ split = IdleSplit
    /\ debt_log = <<>>
    /\ debt_calls = 0
    /\ OptIdle
    /\ ApiIdle
    /\ ExpIdle

FrameNext ==
    \/ CreateWallet
    \/ DeleteWallet
    \/ ProcessAutoDeduction
    \/ CancelPending
    \/ DbConfirmPending
    \/ ConfirmPayment

SpecFrame == InitFrame /\ [][FrameNext]_vars

\* ---- DeductionService.process_auto_deduction, called for a share
\* what the external rate source would answer for a pair: nothing (it cannot
\* be reached), or a rate
SourceRates == {NoRate, [num |-> 3, den |-> 1]}

\* One call.  share_amount is a Decimal and add_pending_deduction binds it as
\* it is: the driver accepts the INSERT ("committed") or rejects the
\* parameter ("raised"), and then nothing is written.  source is what the
\* external rate source would answer; pending_id is the id the INSERT takes.
ProcessAutoDeductionCall(c) ==
    /\ Quiet
    /\ next_pending_id <= MaxPending
    /\ \E u \in Users, a \in Shares, cur \in Currencies,
          source \in SourceRates, outcome \in Outcomes :
          /\ calls' = [calls EXCEPT ![c] =
                [pc |-> "done", op |-> "process_auto_deduction", user_id |-> u,
                 share_amount |-> a, share_currency |-> cur, source |-> source,
                 pending_id |-> next_pending_id, result |-> outcome]]
          /\ IF outcome = "committed"
             THEN process_auto_deduction(u, 1, a, cur)
             ELSE UNCHANGED pendingTables
    /\ UNCHANGED <<db_lock, walletTables, settings, group_deductions, confirm_req,
                   history, debtVars, optVars, stlVars, expVars>>

\* Database.update_user_settings(user_id, preferred_currency=...)
UpdateUserSettings ==
    /\ \E u \in Users, cur \in Currencies :
          user_settings' = [user_settings EXCEPT ![u] = cur]
    /\ UNCHANGED <<walletTables, exchange_rates, pendingTables, group_deductions,
                   confirm_req, history, debtVars, optVars, stlVars, apiVars, expVars>>

SuggestNext ==
    \/ (Quiet /\ CreateWallet)
    \/ (Quiet /\ UpdateUserSettings)
    \/ ProcessAutoDeductionCall(Caller1)
    \/ Return(Caller1)
    \/ (Quiet /\ CancelPending)

SpecSuggest == Init /\ [][SuggestNext]_vars

\* the debt ledger under calls of update_group_debts
DebtNext == UpdateGroupDebts

SpecDebt == InitNoRates /\ [][DebtNext]_vars

\* the debt ledger under equal-split group expenses
SplitNext ==
    \/ SplitStart
    \/ SplitCreateExpense
    \/ SplitAddParticipants
    \/ SplitUpdateDebt

SpecSplit == InitNoRates /\ [][SplitNext]_vars

\* optimize_group_debts on any table of debts
InitOptimize ==
    /\ NoRates
    /\ DebtInit
    /\ opt_rows \in OptTables
    /\ opt = IdleOpt
    /\ stl_balances = <<>>
    /\ stl = IdleStl
    /\ ApiIdle
    /\ ExpIdle

OptimizeNext ==
    \/ OptStart
    \/ OptStep
    \/ OptReturn

SpecOptimize == InitOptimize /\ [][OptimizeNext]_vars

\* concurrent update_wallet_balance calls on the wallet ledger
BalanceNext ==
    \/ CreateWalletUnlocked
    \/ DeleteWalletUnlocked
    \/ UpdateWalletBalance

SpecBalance == InitNoRates /\ [][BalanceNext]_vars

\* update_wallet_balance calls one after the other, any of which may raise
TxnNext ==
    \/ CreateWalletQuiet
    \/ DeleteWalletQuiet
    \/ UwbNext

SpecTxn == InitNoRates /\ [][TxnNext]_vars

\* two update_group_debts calls on the debt ledger, over a table that holds
\* no row or one row left by an earlier call
DebtTables == {{}} \cup {{DebtRow(g, 1, 2, a, "VND")} : g \in Groups, a \in 1..MaxDelta}

InitDebtCalls ==
    /\ NoRates
    /\ group_debts \in DebtTables
    /\ group_expenses = <<>>
    /\ split = IdleSplit
    /\ debt_log = <<>>
    /\ debt_calls = 0
    /\ OptIdle
    /\ ApiIdle
    /\ ExpIdle

DebtCallsNext == UpdateGroupDebtsCalls

SpecDebtCalls == InitDebtCalls /\ [][DebtCallsNext]_vars

\* the personal-expense handlers over the wallet ledger; a handler may stop
\* between its two Database calls and wallets are created and deleted in
\* between
ExpenseNext ==
    \/ CreateWallet
    \/ DeleteWallet
    \/ PeStartA
    \/ PeDebitA
    \/ PeRecordA
    \/ PeRecordB
    \/ PeDebitB
    \/ PeFail

SpecExpense == InitNoRates /\ [][ExpenseNext]_vars

\* personal expenses recorded by handlers that run to their end, and
\* undo_personal_expense calls, one operation after the other as time passes
Sequential == Quiet /\ pflow.pc = "idle"

UndoNext ==
    \/ (Sequential /\ CreateWallet)
    \/ (Sequential /\ DeleteWallet)
    \/ (Sequential /\ PeStartA)
    \/ PeDebitA
    \/ PeRecordA
    \/ (Sequential /\ PeRecordB)
    \/ PeDebitB
    \/ (Sequential /\ Tick)
    \/ (Sequential /\ UndoSelect(Caller1))
    \/ UndoCredit(Caller1)
    \/ UndoDelete(Caller1)
    \/ Return(Caller1)

SpecUndo == InitNoRates /\ [][UndoNext]_vars

\* personal expenses recorded by handlers that run to their end, and
\* delete_personal_expense calls as time passes
HardDeleteNext ==
    \/ (Sequential /\ CreateWallet)
    \/ (Sequential /\ PeStartA)
    \/ PeDebitA
    \/ PeRecordA
    \/ (Sequential /\ PeRecordB)
    \/ PeDebitB
    \/ (Sequential /\ Tick)
    \/ (Sequential /\ DeletePersonalExpense(Caller1))
    \/ Return(Caller1)

SpecHardDelete == InitNoRates /\ [][HardDeleteNext]_vars

\* two requests to undo_personal_expense whose statements interleave: each
\* call opens a connection of its own and awaits between its statements
UndoRaceNext ==
    \/ (Sequential /\ CreateWallet)
    \/ (Sequential /\ DeleteWallet)
    \/ (Sequential /\ PeRecordB)
    \/ PeDebitB
    \/ (Sequential /\ Tick)
    \/ \E c \in Callers :
          \/ (pflow.pc = "idle" /\ UndoSelect(c))
          \/ UndoCredit(c)
          \/ UndoDelete(c)
          \/ Return(c)

SpecUndoRace == InitNoRates /\ [][UndoRaceNext]_vars

\* ---- Database.undo_group_expense, Database.delete_group_expense
\* group_expenses keeps one position per AUTOINCREMENT id; a deleted row
\* leaves its position empty, and its group_expense_participants rows,
\* which no statement of the two deletes, stay
RemovedExpense(row) ==
    [group_id |-> 0, payer_user_id |-> 0, amount |-> 0, currency |-> row.currency,
     participants |-> row.participants]

\* "WHERE id = ? AND payer_id = ?"
PaidBy(expense_id, user_id) ==
    /\ expense_id \in DOMAIN group_expenses
    /\ group_expenses[expense_id].group_id # 0
    /\ group_expenses[expense_id].payer_user_id = user_id

\* a delete that also takes the payer's rows of the group out of the ledger
DeleteGroupExpenseReversing(c) ==
    /\ calls[c].pc = "idle"
    /\ \E expense_id \in 1..MaxExpenses, user_id \in DebtUsers, outcome \in Outcomes :
          LET hit == outcome = "committed" /\ PaidBy(expense_id, user_id)
          IN  /\ group_expenses' =
                    IF hit
                    THEN [group_expenses EXCEPT ![expense_id] = RemovedExpense(@)]
                    ELSE group_expenses
              /\ group_debts' =
                    IF hit
                    THEN {row \in group_debts :
                            ~(/\ row.group_id = group_expenses[expense_id].group_id
                              /\ row.creditor_user_id = user_id)}
                    ELSE group_debts
              /\ calls' = [calls EXCEPT ![c] =
                    [pc |-> "done", op |-> "delete_group_expense",
                     expense_id |-> expense_id, user_id |-> user_id,
                     result |-> IF outcome = "raised" THEN "raised"
                                ELSE IF hit THEN "True" ELSE "False"]]
    /\ UNCHANGED <<split, debt_log, debt_calls>>
    /\ UNCHANGED <<db_lock, ledgerVars, optVars, stlVars, expVars>>

\* "DELETE FROM debts WHERE expense_id = ?", "DELETE FROM group_expenses
\* WHERE id = ? AND payer_id = ?", commit, "return cursor.rowcount > 0".
\* The schema init_db creates has no table debts and no column payer_id of
\* group_expenses: on it the first statement raises and nothing is
\* committed; on a database file that has both, the statements run.
DeleteGroupExpense(c) ==
    /\ calls[c].pc = "idle"
    /\ \E expense_id \in 1..MaxExpenses, user_id \in DebtUsers, outcome \in Outcomes :
          LET hit == outcome = "committed" /\ PaidBy(expense_id, user_id)
          IN  /\ group_expenses' =
                    IF hit
                    THEN [group_expenses EXCEPT ![expense_id] = RemovedExpense(@)]
                    ELSE group_expenses
              /\ calls' = [calls EXCEPT ![c] =
                    [pc |-> "done", op |-> "delete_group_expense",
                     expense_id |-> expense_id, user_id |-> user_id,
                     result |-> IF outcome = "raised" THEN "raised"
                                ELSE IF hit THEN "True" ELSE "False"]]
    /\ UNCHANGED <<group_debts, split, debt_log, debt_calls>>
    /\ UNCHANGED <<db_lock, ledgerVars, optVars, stlVars, expVars>>

\* the SELECT "WHERE id = ? AND payer_id = ?" raises on the schema init_db
\* creates; where it runs, "if not row: return False", and a row written by
\* create_group_expense has no undo_until, so "if not undo_until_dt or ...:
\* return False".  A row whose undo_until was set by other means and has
\* not passed is deleted: the deadline is drawn, not kept in the row.
UndoGroupExpense(c) ==
    /\ calls[c].pc = "idle"
    /\ \E expense_id \in 1..MaxExpenses, user_id \in DebtUsers, outcome \in Outcomes,
          before_deadline \in BOOLEAN :
          LET hit == /\ outcome = "committed"
                     /\ PaidBy(expense_id, user_id)
                     /\ before_deadline
          IN  /\ group_expenses' =
                    IF hit
                    THEN [group_expenses EXCEPT ![expense_id] = RemovedExpense(@)]
                    ELSE group_expenses
              /\ calls' = [calls EXCEPT ![c] =
                    [pc |-> "done", op |-> "undo_group_expense",
                     expense_id |-> expense_id, user_id |-> user_id,
                     result |-> IF outcome = "raised" THEN "raised"
                                ELSE IF hit THEN "True" ELSE "False"]]
    /\ UNCHANGED <<group_debts, split, debt_log, debt_calls>>
    /\ UNCHANGED <<db_lock, ledgerVars, optVars, stlVars, expVars>>

\* group expenses entered one after the other, each split to its end or
\* until a call raises, and deleted or undone between two of them
GroupUndoNext ==
    \/ (Quiet /\ split.pc = "idle" /\ SplitStart)
    \/ SplitCreateExpense
    \/ SplitAddParticipants
    \/ SplitUpdateDebt
    \/ (split.pc = "idle" /\ DeleteGroupExpense(Caller1))
    \/ (split.pc = "idle" /\ UndoGroupExpense(Caller1))
    \/ Return(Caller1)

SpecGroupUndo == InitNoRates /\ [][GroupUndoNext]_vars

\* ---- confirm_pending_deduction and cancel_pending_deduction as calls,
\* with any id, one that is in no row included
\* "if not pending: return False", else the INSERT, the DELETE, "return True"
ConfirmPendingDeductionCall(c) ==
    /\ calls[c].pc = "idle"
    /\ \E p \in 1..MaxPending, w \in 1..MaxWallets :
          /\ IF p \in DOMAIN pending_deductions
             THEN confirm_pending_deduction(p, w)
             ELSE UNCHANGED <<pending_deductions, group_deductions, recorded>>
          /\ calls' = [calls EXCEPT ![c] =
                [pc |-> "done", op |-> "confirm_pending_deduction", pending_id |-> p,
                 wallet_id |-> w,
                 result |-> IF p \in DOMAIN pending_deductions THEN "True" ELSE "False"]]
    /\ UNCHANGED <<db_lock, walletTables, settings, next_pending_id, confirm_req, debits,
                   not_found, debtVars, optVars, stlVars, expVars>>

\* the DELETE, the commit, "return True"
CancelPendingDeductionCall(c) ==
    /\ calls[c].pc = "idle"
    /\ \E p \in 1..MaxPending :
          /\ cancel_pending_deduction(p)
          /\ calls' = [calls EXCEPT ![c] =
                [pc |-> "done", op |-> "cancel_pending_deduction", pending_id |-> p,
                 result |-> "True"]]
    /\ UNCHANGED <<db_lock, walletTables, settings, next_pending_id, group_deductions,
                   confirm_req, history, debtVars, optVars, stlVars, expVars>>

PendingCallsNext ==
    \/ (Quiet /\ CreateWallet)
    \/ ProcessAutoDeductionCall(Caller1)
    \/ ConfirmPendingDeductionCall(Caller1)
    \/ CancelPendingDeductionCall(Caller1)
    \/ Return(Caller1)

SpecPendingCalls == Init /\ [][PendingCallsNext]_vars

\* ---- handle_message, action decrease_amount, for an amount above zero:
\* get_wallet of the wallet chosen before (wallet.current_balance of a
\* wallet that is gone raises, and the handler answers with an error), the
\* "if amount > current_balance: ... return" refusal, update_wallet_balance
DecreaseAmount(c) ==
    /\ calls[c].pc = "idle"
    /\ Len(wallet_adjustments) < MaxAdjustments
    /\ \E w \in 1..MaxWallets, a \in Amounts :
          LET known == w \in DOMAIN user_wallets
              refused == known /\ a > user_wallets[w].current_balance
          IN  /\ IF known /\ ~refused
                 THEN update_wallet_balance(w, -a, "Giảm tiền")
                 ELSE UNCHANGED <<user_wallets, wallet_adjustments>>
              /\ calls' = [calls EXCEPT ![c] =
                    [pc |-> "done", op |-> "decrease_amount", wallet_id |-> w,
                     amount |-> a,
                     result |-> IF ~known THEN "raised"
                                ELSE IF refused THEN "refused" ELSE "decreased"]]
    /\ UNCHANGED <<db_lock, next_wallet_id, settings, pendingTables, group_deductions,
                   confirm_req, history, debtVars, optVars, stlVars, expVars>>

DecreaseNext ==
    \/ (Quiet /\ CreateWallet)
    \/ (Quiet /\ DeleteWallet)
    \/ (Quiet /\ TopUp)
    \/ DecreaseAmount(Caller1)
    \/ Return(Caller1)

SpecDecrease == InitNoRates /\ [][DecreaseNext]_vars

\* ---- updates of the application, in the order they arrive
\* The Application is built without concurrent_updates: the updates wait in
\* its queue and the handler of one has ended before that of the next is
\* called.  Here an update is a debit, one update_wallet_balance call with
\* an amount taken; seq is its place in the order of arrival.
Debits == {-a : a \in Amounts}

Arrived == {c \in Callers : calls[c].pc # "idle"}

LastSeq == IF Arrived = {} THEN 0
           ELSE CHOOSE n \in {calls[c].seq : c \in Arrived} :
                    \A c \in Arrived : calls[c].seq <= n

\* an update is put into the queue
SubmitDebit(c) ==
    /\ calls[c].pc = "idle"
    /\ LastSeq < MaxAdjustments
    /\ \E wallet_id \in WalletIds, delta_amount \in Debits :
          calls' = [calls EXCEPT ![c] =
              [pc |-> "queued", op |-> "update_wallet_balance", seq |-> LastSeq + 1,
               wallet_id |-> wallet_id, delta_amount |-> delta_amount,
               found |-> FALSE, row |-> 0, result |-> "none"]]
    /\ UNCHANGED <<db_lock, ledgerVars, debtVars, optVars, stlVars, expVars>>

\* the first update in the queue
Oldest(c) == \A d \in Callers : calls[d].pc = "queued" => calls[c].seq <= calls[d].seq

\* its SELECT: "if not row: return False"
Selected(c) ==
    IF calls[c].wallet_id \in DOMAIN user_wallets
    THEN [calls[c] EXCEPT !.pc = "read", !.found = TRUE,
                          !.row = user_wallets[calls[c].wallet_id].current_balance]
    ELSE [calls[c] EXCEPT !.pc = "done", !.result = "False"]

\* updates handled as they come, a handler started while another is running
ProcessUpdateConcurrently(c) ==
    /\ calls[c].pc = "queued"
    /\ Oldest(c)
    /\ Len(wallet_adjustments) < MaxAdjustments
    /\ calls' = [calls EXCEPT ![c] = Selected(c)]
    /\ UNCHANGED <<db_lock, ledgerVars, debtVars, optVars, stlVars, expVars>>

\* the first update in the queue is handled once no handler is running
ProcessUpdate(c) ==
    /\ calls[c].pc = "queued"
    /\ Oldest(c)
    /\ \A d \in Callers : calls[d].pc \in {"idle", "queued", "done"}
    /\ Len(wallet_adjustments) < MaxAdjustments
    /\ calls' = [calls EXCEPT ![c] = Selected(c)]
    /\ UNCHANGED <<db_lock, ledgerVars, debtVars, optVars, stlVars, expVars>>

\* the answers are forgotten in the order of arrival, so that seq grows
Earliest(c) == c \in Arrived /\ \A d \in Arrived : calls[c].seq <= calls[d].seq

ArrivalNext ==
    \/ CreateWalletQuiet
    \/ \E c \in Callers :
          \/ SubmitDebit(c)
          \/ ProcessUpdate(c)
          \/ UwbUpdate(c)
          \/ UwbInsert(c)
          \/ UwbCommit(c)
          \/ UwbRaise(c)
          \/ (Earliest(c) /\ Return(c))

SpecArrival == InitNoRates /\ [][ArrivalNext]_vars

\* ---- the exchange_rates table and CurrencyService.convert
\* exchange_rates has PRIMARY KEY (from_currency, to_currency): one row per
\* ordered pair.  The rates the operator types: any number above 0.
RateValues == {[num |-> 1, den |-> 2], [num |-> 17, den |-> 10], [num |-> 2, den |-> 1]}

OrderedPairs == {p \in Currencies \X Currencies : p[1] # p[2]}

\* Database.set_exchange_rate: INSERT OR REPLACE
set_exchange_rate(rates, from, to, rate) ==
    [k \in DOMAIN rates \cup {<<from, to>>} |->
        IF k = <<from, to>> THEN rate ELSE rates[k]]

\* Database.set_exchange_rate(from_currency, to_currency, rate, set_by), one
\* call: the method takes any pair (main.py handle_message, action
\* set_exchange_rate, passes the pair of the menu and a rate above 0);
\* before is the table the call found
SetExchangeRate(c) ==
    /\ Sequential
    /\ \E p \in OrderedPairs, rate \in RateValues :
          /\ exchange_rates' = set_exchange_rate(exchange_rates, p[1], p[2], rate)
          /\ calls' = [calls EXCEPT ![c] =
                [pc |-> "done", op |-> "set_exchange_rate", from |-> p[1], to |-> p[2],
                 rate |-> rate, before |-> exchange_rates, result |-> "None"]]
    /\ UNCHANGED <<db_lock, walletTables, user_settings, pendingTables, group_deductions,
                   confirm_req, history, debtVars, optVars, stlVars, expVars>>

\* Database.get_exchange_rate(from_currency, to_currency), one call
GetExchangeRate(c) ==
    /\ calls[c].pc = "idle"
    /\ pflow.pc = "idle"
    /\ \E from \in Currencies, to \in Currencies :
          calls' = [calls EXCEPT ![c] =
                [pc |-> "done", op |-> "get_exchange_rate", from |-> from, to |-> to,
                 result |-> get_exchange_rate(exchange_rates, from, to)]]
    /\ UNCHANGED <<db_lock, ledgerVars, debtVars, optVars, stlVars, expVars>>

\* CurrencyService.convert(amount, from_currency, to_currency), one call at
\* time at; source is what the external rate source would answer.  The call
\* returns from the operator's rate or raises before the source is asked, so
\* save_exchange_rate is never reached and the table stays as it is.
Convert(c) ==
    /\ Sequential
    /\ \E amount \in Amounts, from \in Currencies, to \in Currencies, source \in SourceRates :
          LET cv == convert(exchange_rates, amount, from, to)
          IN  calls' = [calls EXCEPT ![c] =
                [pc |-> "done", op |-> "convert", amount |-> amount, from |-> from,
                 to |-> to, source |-> source, at |-> now,
                 result |-> IF cv.ok THEN "returned" ELSE "raised",
                 rate |-> cv.rate, converted |-> cv.amount]]
    /\ UNCHANGED <<db_lock, ledgerVars, debtVars, optVars, stlVars, expVars>>

RatesNext ==
    \/ SetExchangeRate(Caller1)
    \/ (\E c \in Callers : GetExchangeRate(c))
    \/ Convert(Caller1)
    \/ (\E c \in Callers : Return(c))
    \/ (Sequential /\ Tick)

SpecRates == Init /\ [][RatesNext]_vars

\* ---- Database.get_group_debts over the ledgers of two groups
LedgerGroups == {1, 2}

\* debtor and creditor of the rows.  The split_equally handler passes the
\* Telegram ids of the chat members (keyboards.py "toggle_participant_",
\* "select_payer_"), and no foreign key is enforced: an id may be the id of a
\* users row (1, 2) or of none (3)
LedgerPairs == {<<1, 2>>, <<2, 1>>, <<1, 3>>}

LedgerKeys == LedgerGroups \X LedgerPairs

\* what update_group_debts leaves in a row: a sum of deltas of any sign,
\* or the amount of the first call, which may be 0
LedgerAmounts == (-1)..MaxDebt

NoRow == MaxDebt + 1

\* one row per (group, debtor, creditor, currency): the UNIQUE constraint
LedgerOf(f) ==
    {DebtRow(k[1], k[2][1], k[2][2], f[k], "VND") : k \in {x \in LedgerKeys : f[x] # NoRow}}

\* the rows in every order with the amounts going down; rows of equal
\* amount come in any order
Descending(S) ==
    LET n == Cardinality(S)
    IN  {f \in [1..n -> S] :
            /\ \A i \in 1..n, j \in 1..n : f[i] = f[j] => i = j
            /\ \A i \in 1..n, j \in 1..n : i < j => f[i].amount >= f[j].amount}

\* "FROM group_debts gd JOIN users u1 ... JOIN users u2 ... WHERE
\* gd.group_id = ? AND gd.amount > 0 ORDER BY gd.amount DESC"
get_group_debts_of(rows, group_id) ==
    Descending({row \in rows :
                  /\ row.debtor_user_id \in Users
                  /\ row.creditor_user_id \in Users
                  /\ row.group_id = group_id
                  /\ row.amount > 0})

\* Database.get_group_debts(group_id), one call
GetGroupDebts(c) ==
    /\ calls[c].pc = "idle"
    /\ \E g \in LedgerGroups : \E result \in get_group_debts_of(group_debts, g) :
          calls' = [calls EXCEPT ![c] =
                [pc |-> "done", op |-> "get_group_debts", group_id |-> g,
                 result |-> result]]
    /\ UNCHANGED <<db_lock, ledgerVars, debtVars, optVars, stlVars, expVars>>

InitLedgers ==
    /\ NoRates
    /\ \E f \in [LedgerKeys -> LedgerAmounts \cup {NoRow}] : group_debts = LedgerOf(f)
    /\ group_expenses = <<>>
    /\ split = IdleSplit
    /\ debt_log = <<>>
    /\ debt_calls = 0
    /\ OptIdle
    /\ ApiIdle
    /\ ExpIdle

LedgersNext ==
    \/ GetGroupDebts(Caller1)
    \/ Return(Caller1)

SpecLedgers == InitLedgers /\ [][LedgersNext]_vars

\* wallets created by two connections at a time and deleted in between
CreateNext ==
    \/ CreateWalletCalls
    \/ DeleteWalletUnlocked

SpecCreate == InitNoRates /\ [][CreateNext]_vars

\* ---- one expense split equally among everybody, then the optimizer
\* the amount paid: a multiple of the number of participants, so that the
\* shares are exact
ScenarioAmount == Cardinality(DebtUsers) * MaxDebt

\* the participants in every order they can be toggled in
EverybodySelected ==
    {sel \in [1..Cardinality(DebtUsers) -> DebtUsers] :
        \A i \in DOMAIN sel, j \in DOMAIN sel : sel[i] = sel[j] => i = j}

\* the payer has entered the amount and selected everybody, the payer
\* included; the ledger is empty
InitScenario ==
    /\ NoRates
    /\ group_debts = {}
    /\ group_expenses = <<>>
    /\ debt_log = <<>>
    /\ debt_calls = 0
    /\ \E g \in Groups, payer \in DebtUsers, cur \in Currencies, sel \in EverybodySelected :
          split = [pc |-> "ready", group_id |-> g, payer_id |-> payer,
                   amount |-> ScenarioAmount, currency |-> cur, selected |-> sel, idx |-> 0]
    /\ OptIdle
    /\ ApiIdle
    /\ ExpIdle

\* the split_equally handler has run once and ended, by returning or by an
\* exception of update_group_debts
SplitEnded ==
    /\ Len(group_expenses) = 1
    /\ \/ split.pc = "idle"
       \/ split.pc = "ready" /\ debt_log # <<>> /\ debt_log[Len(debt_log)].raised

\* optimize_group_debts: "debts = await self.get_group_debts(group_id)"
\* reads the rows of the group
ScenarioFetch ==
    /\ SplitEnded
    /\ opt.pc = "idle"
    /\ opt_rows = << >>
    /\ group_debts # {}
    /\ opt_rows' = [k \in {<<row.debtor_user_id, row.creditor_user_id, row.currency>> :
                              row \in group_debts} |->
                      (CHOOSE row \in group_debts :
                          <<row.debtor_user_id, row.creditor_user_id, row.currency>> = k).amount]
    /\ UNCHANGED <<opt, stlVars, ledgerVars, debtVars, apiVars, expVars>>

ScenarioNext ==
    \/ (~SplitEnded /\ SplitCreateExpense)
    \/ SplitAddParticipants
    \/ SplitDebtStep
    \/ ScenarioFetch
    \/ (SplitEnded /\ OptStart)
    \/ OptStep
    \/ OptReturn

SpecScenario == InitScenario /\ [][ScenarioNext]_vars

\* a ledger in which three users owe one another the same amount in a
\* circle: a owes b, b owes c, c owes a
CycleTables ==
    {[k \in {<<t[1], t[2], cur>>, <<t[2], t[3], cur>>, <<t[3], t[1], cur>>} |-> amount] :
        t \in {x \in DebtUsers \X DebtUsers \X DebtUsers :
                  x[1] # x[2] /\ x[2] # x[3] /\ x[1] # x[3]},
        cur \in Currencies, amount \in 1..MaxDebt}

\* both optimizers, each on any input of its own: optimize_group_debts on
\* any table of debts or circle of debts, calculate_settlements on any list
\* of balances
InitOptimizers ==
    /\ NoRates
    /\ DebtInit
    /\ opt = IdleOpt
    /\ stl = IdleStl
    /\ \/ opt_rows \in OptTables \cup CycleTables /\ stl_balances = <<>>
       \/ opt_rows = << >> /\ stl_balances \in BalanceLists
    /\ ApiIdle
    /\ ExpIdle

OptimizersNext ==
    \/ OptStart
    \/ OptStep
    \/ OptReturn
    \/ StlStart
    \/ StlStep
    \/ StlReturn

SpecOptimizers == InitOptimizers /\ [][OptimizersNext]_vars

\* both optimizers on the debts of two debtors towards two creditors
GreedyKeys == {<<1, 3, "VND">>, <<1, 4, "VND">>, <<2, 3, "VND">>, <<2, 4, "VND">>}

GreedyTables == [GreedyKeys -> 0..MaxDebt]

\* the balances of four users, in whole hundredths
GreedyBalances ==
    {<<[user |-> 1, balance |-> -10 * a], [user |-> 2, balance |-> -10 * b],
       [user |-> 3, balance |-> 10 * c], [user |-> 4, balance |-> 10 * d]>> :
        a \in 1..(2 * MaxDebt), b \in 1..(2 * MaxDebt),
        c \in 1..(2 * MaxDebt), d \in 1..(2 * MaxDebt)}

InitGreedy ==
    /\ NoRates
    /\ DebtInit
    /\ opt = IdleOpt
    /\ stl = IdleStl
    /\ \/ opt_rows \in GreedyTables /\ stl_balances = <<>>
       \/ opt_rows = << >> /\ stl_balances \in GreedyBalances
    /\ ApiIdle
    /\ ExpIdle

SpecGreedy == InitGreedy /\ [][OptimizersNext]_vars

\* calculate_settlements on any list of balances
InitSettle ==
    /\ NoRates
    /\ DebtInit
    /\ opt_rows = << >>
    /\ opt = IdleOpt
    /\ stl_balances \in BalanceLists
    /\ stl = IdleStl
    /\ ApiIdle
    /\ ExpIdle

SettleNext ==
    \/ StlStart
    \/ StlStep
    \/ StlReturn

SpecSettle == InitSettle /\ [][SettleNext]_vars

\* ------------------------------------------------------------ claims
\* what a list of (debtor, creditor, amount) transfers gives a user: the
\* amounts received minus the amounts paid
RECURSIVE TransferNet(_, _)
TransferNet(transfers, user_id) ==
    IF transfers = <<>> THEN 0
    ELSE LET t == transfers[Len(transfers)]
         IN  TransferNet(SubSeq(transfers, 1, Len(transfers) - 1), user_id)
             + (IF t.creditor = user_id THEN t.amount ELSE 0)
             - (IF t.debtor = user_id THEN t.amount ELSE 0)

\* a user's net balance in a table of debts: owed to the user minus owed by
\* the user, over the rows of one currency
RECURSIVE RowsNet(_, _, _, _)
RowsNet(table, keys, currency, user_id) ==
    IF keys = {} THEN 0
    ELSE LET k == CHOOSE x \in keys : TRUE
         IN  RowsNet(table, keys \ {k}, currency, user_id)
             + (IF k[3] = currency /\ k[2] = user_id THEN table[k] ELSE 0)
             - (IF k[3] = currency /\ k[1] = user_id THEN table[k] ELSE 0)

InputBalance(user_id) ==
    IF \E i \in DOMAIN stl_balances : stl_balances[i].user = user_id
    THEN stl_balances[CHOOSE i \in DOMAIN stl_balances :
                          stl_balances[i].user = user_id].balance \div 10
    ELSE 0

RECURSIVE SumBalances(_)
SumBalances(list) ==
    IF list = <<>> THEN 0
    ELSE list[Len(list)].balance + SumBalances(SubSeq(list, 1, Len(list) - 1))

\* C2: for any list of two-decimal balances that sum to zero, the
\* settlements returned by calculate_settlements give every user exactly
\* the balance they came in with.
C2_SettlementsConserveBalances ==
    (/\ stl.pc = "done"
     /\ \A i \in DOMAIN stl_balances : stl_balances[i].balance % 10 = 0
     /\ SumBalances(stl_balances) = 0)
    => \A u \in DebtUsers : TransferNet(stl.settlements, u) = InputBalance(u)

C8_TerminalIsFinal ==
    [][\A p \in 1..MaxPending :
          Terminal(p) =>
             /\ Terminal(p)'
             /\ ~InFlight(p) => (debits'[p] = debits[p] /\ recorded'[p] = recorded[p])
      ]_vars

C8_Witness ==
    \E p \in not_found : Terminal(p) /\ ~InFlight(p) /\ recorded[p] = 1

\* C9: a confirmed pending deduction has one group_deductions row holding
\* the chosen wallet with the rate and amount of the conversion from the
\* share currency to that wallet's currency, and the wallet was debited by
\* exactly that amount.
C9_ConfirmRecomputesAndDebits ==
    \A i \in DOMAIN group_deductions :
        LET row == group_deductions[i]
            p == row.pending_id
            want == convert(exchange_rates, row.share_amount, row.share_currency,
                            user_wallets[row.wallet_id].currency)
        IN  (Terminal(p) /\ ~InFlight(p) /\ row.wallet_id \in DOMAIN user_wallets
                /\ want.ok)
            => /\ row.fx_rate_used = want.rate
               /\ row.deducted_amount_in_wallet_currency = want.amount
               /\ debits[p] = <<want.amount>>

LastCall == debt_log[Len(debt_log)]

AmountBefore(e) == IF e.before = {} THEN 0 ELSE CHOOSE x \in e.before : TRUE

AmountStored(key) ==
    IF RowsOf(group_debts, key) = {} THEN 0
    ELSE (CHOOSE row \in RowsOf(group_debts, key) : TRUE).amount

\* C4: after update_group_debts(group, debtor, creditor, delta, currency) the
\* amount stored for that key is the amount stored before plus the delta (a
\* call on an absent key stores the delta).
C4_StoredAmountIsSumOfDeltas ==
    debt_log # <<>> => AmountStored(LastCall.key) = AmountBefore(LastCall) + LastCall.amount

C6_OppositeUpdatesCancel ==
    (/\ Len(debt_log) = 2
     /\ debt_log[1].key = debt_log[2].key
     /\ debt_log[1].before = {}
     /\ debt_log[1].amount = MaxDelta
     /\ debt_log[2].amount = -MaxDelta)
    => /\ ~debt_log[1].raised
       /\ ~debt_log[2].raised
       /\ RowsOf(group_debts, debt_log[2].key) = {}

RowsOfWallet(adj, w) == SelectSeq(adj, LAMBDA row : row.wallet_id = w)

\* the rows a step appends for one wallet
AppendedFor(w) ==
    RowsOfWallet(SubSeq(wallet_adjustments', Len(wallet_adjustments) + 1,
                        Len(wallet_adjustments')), w)

\* C11: when two update_wallet_balance calls on one wallet have both returned
\* True, the balance is the balance before the calls plus both deltas and the
\* wallet has two new adjustment rows, whatever the order of their steps.
C11_NoLostUpdate ==
    \A w \in DOMAIN user_wallets :
        (\A c \in Callers : /\ calls[c].pc = "done"
                            /\ calls[c].result = "True"
                            /\ calls[c].wallet_id = w)
        => /\ user_wallets[w].current_balance =
                 user_wallets[w].initial_amount
                 + calls[1].delta_amount + calls[2].delta_amount
           /\ Len(RowsOfWallet(wallet_adjustments, w)) = 3

\* C18: in every step, for every wallet, either the balance stays and no
\* adjustment row is appended for it, or the balance changes by a delta and
\* exactly one row with that delta is appended for it.
C18_BalanceAndRowTogether ==
    [][\A w \in DOMAIN user_wallets \cap DOMAIN user_wallets' :
          LET new == AppendedFor(w)
              before == user_wallets[w].current_balance
              after == user_wallets'[w].current_balance
          IN  /\ Len(new) <= 1
              /\ Len(new) = 0 => after = before
              /\ Len(new) = 1 => after = before + new[1].delta_amount
      ]_vars

\* an update_wallet_balance call on an existing wallet has committed
C18_Witness ==
    /\ calls[Caller1].pc = "done"
    /\ calls[Caller1].result = "True"
    /\ calls[Caller1].wallet_id \in DOMAIN user_wallets
    /\ user_wallets[calls[Caller1].wallet_id].current_balance =
          user_wallets[calls[Caller1].wallet_id].initial_amount
          + calls[Caller1].delta_amount

\* C19: a call returns False exactly when no wallet has the id it names, and
\* then changes nothing; a call on an existing wallet is never refused, and
\* when it returns True the balance has changed by its delta, below zero too.
C19_FalseOnlyForMissingWallet ==
    [][\A c \in Callers :
          /\ (calls[c].pc = "idle" /\ calls'[c].pc # "idle") =>
                /\ calls'[c].result = "False"
                       <=> calls'[c].wallet_id \notin DOMAIN user_wallets
                /\ UNCHANGED <<user_wallets, wallet_adjustments>>
          /\ (calls[c].pc # "done" /\ calls'[c].pc = "done"
                  /\ calls'[c].result = "True") =>
                user_wallets'[calls[c].wallet_id].current_balance =
                    user_wallets[calls[c].wallet_id].current_balance
                    + calls[c].delta_amount
      ]_vars

\* a call has returned True and left the balance below zero
C19_Witness ==
    /\ calls[Caller1].pc = "done"
    /\ calls[Caller1].result = "True"
    /\ calls[Caller1].wallet_id \in DOMAIN user_wallets
    /\ user_wallets[calls[Caller1].wallet_id].current_balance < 0

\* the amount the table held for the key of two calls before either ran: what
\* the call that started first found
PriorAmount ==
    LET c == CHOOSE x \in Callers : calls[x].first
    IN  IF calls[c].existing = {} THEN 0 ELSE CHOOSE x \in calls[c].existing : TRUE

\* C12: when two update_group_debts calls on one key are over, neither has
\* raised and the amount stored for the key is the amount before the calls
\* plus both deltas (no row when that is zero), whatever the order of their
\* steps.
C12_NoLostDebtUpdate ==
    (/\ \A c \in Callers : calls[c].pc = "done" /\ calls[c].op = "update_group_debts"
     /\ calls[1].key = calls[2].key)
    => /\ \A c \in Callers : calls[c].result # "raised"
       /\ AmountStored(calls[1].key)
             = PriorAmount + calls[1].amount + calls[2].amount
       /\ PriorAmount + calls[1].amount + calls[2].amount = 0
             => RowsOf(group_debts, calls[1].key) = {}

C14_ExpenseAllOrNothing ==
    pflow.pc = "idle" => (pflow.recorded <=> pflow.debited)
\* the users whose net balance over the rows of the requested currency is
\* not zero
NonZeroInTable ==
    {u \in DebtUsers : RowsNet(opt_rows, DOMAIN opt_rows, opt.currency, u) # 0}

\* the entries of the list handed to calculate_settlements whose balance is
\* not zero
NonZeroInList == {i \in DOMAIN stl_balances : stl_balances[i].balance # 0}

ExpectedDebts ==
    LET e == group_expenses[1]
    IN  {DebtRow(e.group_id, u, e.payer_user_id, ShareAmount(e.amount, [i \in DebtUsers |-> i]),
                 e.currency) : u \in DebtUsers \ {e.payer_user_id}}

\* C16: once the payer's expense has been split equally among the payer and
\* the two others, the group_debts rows are exactly one share owed to the
\* payer by each of the two others, and optimize_group_debts for the
\* currency of the expense returns exactly those two transactions.
C16_EqualSplitScenario ==
    SplitEnded =>
        /\ group_debts = ExpectedDebts
        /\ (opt.pc = "done" /\ opt.currency = group_expenses[1].currency) =>
              /\ Len(opt.transactions) = Cardinality(ExpectedDebts)
              /\ {DebtRow(group_expenses[1].group_id, opt.transactions[i].debtor,
                           opt.transactions[i].creditor, opt.transactions[i].amount,
                           opt.currency) : i \in DOMAIN opt.transactions} = ExpectedDebts
\* at most one wallet per (user, currency)
UniqueWallets ==
    \A w1 \in DOMAIN user_wallets, w2 \in DOMAIN user_wallets :
        (user_wallets[w1].user_id = user_wallets[w2].user_id
           /\ user_wallets[w1].currency = user_wallets[w2].currency) => w1 = w2

\* C20: a create_wallet call for a (user, currency) that has a wallet
\* raises, and a call that raises leaves user_wallets and wallet_adjustments
\* as they were; a call that succeeds adds exactly one wallet row and one
\* adjustment row whose delta is the initial amount; whatever the
\* interleaving of two calls, no (user, currency) ever has two wallets.
C20_CreateWalletUnique ==
    [][/\ UniqueWallets'
       /\ \A c \in Callers :
            LET before == calls[c]
                after == calls'[c]
            IN  /\ (before.pc = "idle" /\ after.pc # "idle" /\ after.op = "create_wallet"
                      /\ WalletOf(after.user_id, after.currency) # {}) =>
                     (after.pc = "done" /\ after.result = "raised")
                /\ (before.pc # "done" /\ after.pc = "done" /\ after.result = "raised") =>
                     UNCHANGED <<user_wallets, wallet_adjustments>>
                /\ (before.pc # "done" /\ after.pc = "done" /\ after.result = "created") =>
                     \E w \in DOMAIN user_wallets' \ DOMAIN user_wallets :
                        /\ DOMAIN user_wallets' = DOMAIN user_wallets \cup {w}
                        /\ \A x \in DOMAIN user_wallets : user_wallets'[x] = user_wallets[x]
                        /\ user_wallets'[w] =
                              [user_id |-> after.user_id, currency |-> after.currency,
                               initial_amount |-> after.initial_amount,
                               current_balance |-> after.initial_amount]
                        /\ wallet_adjustments' = Append(wallet_adjustments,
                              AdjustmentRow(w, after.initial_amount, "Tạo ví mới"))]_vars

\* two calls for the same user and currency have ended: one created the
\* wallet, the other raised, and the wallet is there once
C20_Witness ==
    \E c \in Callers, d \in Callers :
        /\ calls[c].pc = "done" /\ calls[c].op = "create_wallet"
        /\ calls[d].pc = "done" /\ calls[d].op = "create_wallet"
        /\ calls[c].result = "created"
        /\ calls[d].result = "raised"
        /\ calls[c].user_id = calls[d].user_id
        /\ calls[c].currency = calls[d].currency
        /\ Cardinality(WalletOf(calls[c].user_id, calls[c].currency)) = 1
\* C21: delete_personal_expense returns True exactly when the expense exists
\* and belongs to the caller, whatever the time; it then removes that row
\* and no other, and otherwise removes nothing; in both cases every wallet
\* and the adjustment log stay as they were.
C21_HardDeleteNoRestore ==
    [][\A c \in Callers :
         LET after == calls'[c]
             e == after.expense_id
             owned == /\ e \in DOMAIN personal_expenses
                      /\ personal_expenses[e].user_id = after.user_id
         IN  (calls[c].pc = "idle" /\ after.pc = "done"
                /\ after.op = "delete_personal_expense") =>
               /\ (after.result = "True") <=> owned
               /\ owned => /\ DOMAIN personal_expenses' = DOMAIN personal_expenses \ {e}
                           /\ \A x \in DOMAIN personal_expenses' :
                                 personal_expenses'[x] = personal_expenses[x]
               /\ ~owned => UNCHANGED personal_expenses
               /\ UNCHANGED <<user_wallets, wallet_adjustments>>]_vars

\* an expense was deleted after its undo deadline (the clock stands still
\* until the call is returned from): the call returned True,
\* the row is gone and the wallet is still debited
C21_Witness ==
    \E c \in Callers :
        /\ calls[c].pc = "done"
        /\ calls[c].op = "delete_personal_expense"
        /\ calls[c].result = "True"
        /\ now >= UndoWindow
        /\ personal_expenses = << >>
        /\ next_expense_id > 1
        /\ \E w \in DOMAIN user_wallets :
              user_wallets[w].current_balance < user_wallets[w].initial_amount
        /\ \A i \in DOMAIN wallet_adjustments :
              wallet_adjustments[i].reason # "Hoàn tác chi tiêu"
\* a pending row goes away in the step
PendingRemoved == DOMAIN pending_deductions' # DOMAIN pending_deductions
                    /\ DOMAIN pending_deductions' \subseteq DOMAIN pending_deductions

\* C22: a step that only deletes a pending row (cancel_pending_deduction,
\* called on its own or as the last call of a confirmation) changes no
\* wallet, no adjustment, no group_deductions row and no group_debts row,
\* and leaves the other pending rows as they were; no step of a
\* confirmation, by the handler or by confirm_pending_deduction, changes
\* group_debts.
C22_CancelDeletesOnlyPending ==
    [][/\ (PendingRemoved /\ group_deductions' = group_deductions) =>
            /\ UNCHANGED <<user_wallets, wallet_adjustments, group_debts>>
            /\ \A p \in DOMAIN pending_deductions' :
                  pending_deductions'[p] = pending_deductions[p]
       /\ (confirm_req' # confirm_req \/ group_deductions' # group_deductions) =>
            UNCHANGED group_debts]_vars

\* with a debt in the group ledger and a wallet present, a pending
\* deduction was canceled without ever being confirmed: the debt is still
\* there
C22_Witness ==
    /\ group_debts = FrameDebts
    /\ group_debts # {}
    /\ \E p \in 1..MaxPending :
          Terminal(p) /\ recorded[p] = 0 /\ debits[p] = <<>>
    /\ user_wallets # << >>

\* C23: a step that adds a pending deduction changes no wallet and appends
\* no adjustment; a wallet's balance goes down, and an adjustment for a
\* group payment is appended, only in the debit step of a confirmation
\* request for a pending deduction.
C23_OnlyConfirmationDebits ==
    [][/\ (\E p \in DOMAIN pending_deductions' : p \notin DOMAIN pending_deductions) =>
            UNCHANGED <<user_wallets, wallet_adjustments>>
       /\ ((\E w \in DOMAIN user_wallets \cap DOMAIN user_wallets' :
                user_wallets'[w].current_balance < user_wallets[w].current_balance)
            \/ (/\ Len(wallet_adjustments') > Len(wallet_adjustments)
                /\ wallet_adjustments'[Len(wallet_adjustments')].reason
                      = "Thanh toán ghi nợ nhóm")) =>
            \E r \in Requests :
                /\ confirm_req[r].pc = "debit"
                /\ confirm_req'[r].pc = "record"
                /\ confirm_req[r].pending_id < next_pending_id]_vars

\* a pending deduction that suggests a wallet exists and that wallet holds
\* what it was created with, its creation being the only adjustment
C23_Witness ==
    \E p \in DOMAIN pending_deductions :
        LET w == pending_deductions[p].suggested_wallet_id
        IN  /\ w \in DOMAIN user_wallets
            /\ user_wallets[w].current_balance = user_wallets[w].initial_amount
            /\ \A i \in DOMAIN wallet_adjustments :
                  wallet_adjustments[i].reason = "Tạo ví mới"

\* the wallets of a user
WalletsOfUser(u) == {w \in DOMAIN user_wallets : user_wallets[w].user_id = u}

\* the wallet the priority order names for a share: the one in the share's
\* currency, else the one in the preferred currency, else another one
PriorityWallets(u, share_currency) ==
    IF WalletOf(u, share_currency) # {} THEN WalletOf(u, share_currency)
    ELSE IF WalletOf(u, user_settings[u]) # {} THEN WalletOf(u, user_settings[u])
    ELSE WalletsOfUser(u)

\* the rate a conversion can be made with: the operator-set one, else the
\* one the external source answers (NoRate when there is neither)
ObtainableRate(from, to, source) ==
    IF from = to THEN One
    ELSE IF get_exchange_rate(exchange_rates, from, to) # NoRate
         THEN get_exchange_rate(exchange_rates, from, to)
    ELSE source

\* C24: a process_auto_deduction call that stored its row, for a user who
\* has a wallet, suggests the wallet the priority order names (share
\* currency, else preferred currency, else another wallet of the user)
\* whenever the amount can be converted into that wallet's currency, with
\* rate 1 and the share amount for a wallet in the share currency and the
\* converted amount otherwise.
C24_SuggestionPriority ==
    \A c \in Callers :
        (/\ calls[c].pc = "done"
         /\ calls[c].op = "process_auto_deduction"
         /\ calls[c].result = "committed") =>
            LET q == calls[c]
                row == pending_deductions[q.pending_id]
                rate(w) == ObtainableRate(q.share_currency, user_wallets[w].currency,
                                          q.source)
            IN  /\ q.pending_id \in DOMAIN pending_deductions
                /\ \A w \in PriorityWallets(q.user_id, q.share_currency) :
                      rate(w) # NoRate =>
                          /\ row.suggested_wallet_id = w
                          /\ row.suggested_fx_rate = rate(w)
                          /\ row.suggested_deduction_amount =
                                Quantize(q.share_amount * rate(w).num, rate(w).den)

\* C25: a process_auto_deduction call for a user without any wallet stores
\* exactly one pending_deductions row, the one of the call, with no
\* suggested wallet, no suggested rate and no suggested amount.
C25_NoWalletStillPending ==
    \A c \in Callers :
        (/\ calls[c].pc = "done"
         /\ calls[c].op = "process_auto_deduction"
         /\ WalletsOfUser(calls[c].user_id) = {}) =>
            LET q == calls[c]
            IN  /\ next_pending_id = q.pending_id + 1
                /\ q.pending_id \in DOMAIN pending_deductions
                /\ pending_deductions[q.pending_id] =
                      PendingRow(q.user_id, 1, q.share_amount, q.share_currency,
                                 NoWallet, NoRate, NullAmount)

\* C26: a convert call for a pair of different currencies that has an
\* operator-set rate returns that rate and the amount times that rate
\* rounded to two decimals, whenever the call is made and whatever rate
\* another source would give for the pair.
C26_OperatorRateWins ==
    \A c \in Callers :
        (/\ calls[c].pc = "done"
         /\ calls[c].op = "convert"
         /\ calls[c].from # calls[c].to
         /\ <<calls[c].from, calls[c].to>> \in DOMAIN exchange_rates) =>
            LET q == calls[c]
                r == exchange_rates[<<q.from, q.to>>]
            IN  /\ q.result = "returned"
                /\ q.rate = r
                /\ 2 * (q.converted * r.den - q.amount * r.num) \in (-r.den)..r.den

\* a convert call made after time has passed, for a pair with an
\* operator-set rate while the external source would answer another rate,
\* whose product is not a whole number of hundredths
C26_Witness ==
    \E c \in Callers :
        /\ calls[c].pc = "done"
        /\ calls[c].op = "convert"
        /\ calls[c].from # calls[c].to
        /\ <<calls[c].from, calls[c].to>> \in DOMAIN exchange_rates
        /\ calls[c].source \notin {NoRate, exchange_rates[<<calls[c].from, calls[c].to>>]}
        /\ calls[c].at > 0
        /\ (calls[c].amount * calls[c].rate.num) % calls[c].rate.den # 0
        /\ calls[c].result = "returned"

\* C27: a convert call for a pair without an operator-set rate, made while
\* the external source answers a rate, returns with that rate.
C27_FetchedRateUsed ==
    \A c \in Callers :
        (/\ calls[c].pc = "done"
         /\ calls[c].op = "convert"
         /\ calls[c].from # calls[c].to
         /\ <<calls[c].from, calls[c].to>> \notin DOMAIN exchange_rates
         /\ <<calls[c].to, calls[c].from>> \notin DOMAIN exchange_rates
         /\ calls[c].source # NoRate) =>
            /\ calls[c].result = "returned"
            /\ calls[c].rate = calls[c].source

\* C29: get_exchange_rate for two different currencies answers the rate
\* stored for the pair when there is one, otherwise one divided by the rate
\* stored for the reverse pair when there is one, otherwise none; and after
\* set_exchange_rate the table holds, for the pair of the call, the rate of
\* the call and nothing else for that pair, the other pairs being as before.
C29_DirectThenReciprocal ==
    \A c \in Callers :
        /\ (/\ calls[c].pc = "done"
            /\ calls[c].op = "get_exchange_rate"
            /\ calls[c].from # calls[c].to) =>
               LET direct == <<calls[c].from, calls[c].to>>
                   reverse == <<calls[c].to, calls[c].from>>
               IN  IF direct \in DOMAIN exchange_rates
                   THEN calls[c].result = exchange_rates[direct]
                   ELSE IF reverse \in DOMAIN exchange_rates
                        THEN /\ calls[c].result.num * exchange_rates[reverse].num
                                   = calls[c].result.den * exchange_rates[reverse].den
                             /\ calls[c].result.den > 0
                        ELSE calls[c].result = NoRate
        /\ (calls[c].pc = "done" /\ calls[c].op = "set_exchange_rate") =>
               LET q == calls[c]
               IN  /\ DOMAIN exchange_rates = DOMAIN q.before \cup {<<q.from, q.to>>}
                   /\ exchange_rates[<<q.from, q.to>>] = q.rate
                   /\ \A k \in DOMAIN q.before \ {<<q.from, q.to>>} :
                         exchange_rates[k] = q.before[k]

\* set_exchange_rate has replaced another rate of a pair whose reverse pair
\* has a rate that is not its reciprocal, and get_exchange_rate has then
\* answered the new rate of the pair
C29_Witness ==
    \E c \in Callers, d \in Callers :
        /\ calls[c].pc = "done"
        /\ calls[c].op = "set_exchange_rate"
        /\ <<calls[c].from, calls[c].to>> \in DOMAIN calls[c].before
        /\ calls[c].before[<<calls[c].from, calls[c].to>>] # calls[c].rate
        /\ <<calls[c].to, calls[c].from>> \in DOMAIN exchange_rates
        /\ exchange_rates[<<calls[c].to, calls[c].from>>]
              # [num |-> calls[c].rate.den, den |-> calls[c].rate.num]
        /\ calls[d].pc = "done"
        /\ calls[d].op = "get_exchange_rate"
        /\ calls[d].from = calls[c].from
        /\ calls[d].to = calls[c].to
        /\ calls[d].result = calls[c].rate

\* C28: where no rate can be had from the share's currency to the currency
\* of a wallet, no group_deductions row names that wallet and no
\* confirmation request goes on to debit it.
C28_FailClosed ==
    LET norate(share_currency, w) ==
            /\ w \in DOMAIN user_wallets
            /\ user_wallets[w].currency # share_currency
            /\ get_exchange_rate(exchange_rates, share_currency,
                                 user_wallets[w].currency) = NoRate
    IN  /\ \A i \in DOMAIN group_deductions :
              ~norate(group_deductions[i].share_currency, group_deductions[i].wallet_id)
        /\ \A r \in Requests :
              confirm_req[r].pc # "idle" =>
                  ~norate(confirm_req[r].share_currency, confirm_req[r].wallet_id)

LargestAt(list, k) == \A n \in k..Len(list) : list[k].amount >= list[n].amount

\* C31: whenever an optimizer is about to emit a transaction, the creditor
\* it takes has the largest remaining balance of the creditors not yet
\* settled and the debtor it takes the largest remaining amount of the
\* debtors not yet settled.
C31_LargestRemainingFirst ==
    /\ (opt.pc = "loop" /\ opt.i <= Len(opt.creditors) /\ opt.j <= Len(opt.debtors)) =>
           LargestAt(opt.creditors, opt.i) /\ LargestAt(opt.debtors, opt.j)
    /\ (stl.pc = "loop" /\ stl.creditors # <<>> /\ stl.debtors # <<>>) =>
           LargestAt(stl.creditors, 1) /\ LargestAt(stl.debtors, 1)

\* the sum of the balances handed to calculate_settlements
RECURSIVE BalanceSum(_)
BalanceSum(list) ==
    IF list = <<>> THEN 0 ELSE list[1].balance + BalanceSum(Tail(list))

\* C32: every iteration of either greedy loop takes a creditor or a debtor
\* out of consideration (optimize_group_debts moves i or j on,
\* calculate_settlements shortens a list), so the loops end; and at the exit
\* of a call whose input balances sum to zero, no creditor and no debtor is
\* left.
C32_GreedyLoopsTerminate ==
    [][/\ (opt.pc = "loop" /\ opt'.pc = "loop" /\ opt' # opt) =>
              opt'.i + opt'.j > opt.i + opt.j
       /\ (stl.pc = "loop" /\ stl'.pc = "loop" /\ stl' # stl) =>
              Len(stl'.debtors) + Len(stl'.creditors)
                  < Len(stl.debtors) + Len(stl.creditors)
       /\ (opt.pc = "loop" /\ opt'.pc = "done") =>
              opt'.i > Len(opt'.creditors) /\ opt'.j > Len(opt'.debtors)
       /\ (stl.pc # "done" /\ stl'.pc = "done" /\ BalanceSum(stl_balances) = 0) =>
              stl'.debtors = <<>> /\ stl'.creditors = <<>>]_vars

\* C40: every transaction optimize_group_debts has emitted has an amount
\* above zero and a debtor who is not its creditor, and nobody is the
\* debtor of one of them and the creditor of another.
C40_TransactionsWellFormed ==
    /\ \A n \in DOMAIN opt.transactions :
          /\ opt.transactions[n].amount > 0
          /\ opt.transactions[n].debtor # opt.transactions[n].creditor
    /\ \A n \in DOMAIN opt.transactions, m \in DOMAIN opt.transactions :
          opt.transactions[n].debtor # opt.transactions[m].creditor

\* a call has returned two transactions for a ledger in which somebody
\* owes one user and is owed by another
C40_Witness ==
    /\ opt.pc = "done"
    /\ Len(opt.transactions) >= 2
    /\ \E k \in DOMAIN opt_rows, l \in DOMAIN opt_rows :
          /\ k[1] = l[2]
          /\ k[1] # k[2]
          /\ l[1] # l[2]
          /\ opt_rows[k] > 0
          /\ opt_rows[l] > 0
\* C33: an undo from the chat menu (delete_personal_expense for the caller's
\* own expense) before the reversal deadline removes the record and puts the
\* wallet balance back to its value before the expense was recorded.
C33_MenuUndoRestoresWallet ==
    [][\A c \in Callers :
         LET after == calls'[c]
             e == after.expense_id
             row == personal_expenses[e]
         IN  (/\ calls[c].pc = "idle" /\ after.pc = "done"
              /\ after.op = "delete_personal_expense"
              /\ e \in DOMAIN personal_expenses
              /\ row.user_id = after.user_id
              /\ now < row.created_at + UndoWindow
              /\ row.wallet_id \in DOMAIN user_wallets) =>
               /\ after.result = "True"
               /\ e \notin DOMAIN personal_expenses'
               /\ user_wallets'[row.wallet_id].current_balance =
                     user_wallets[row.wallet_id].current_balance + row.debited]_vars
\* C34: a personal expense is credited back at most once: of the
\* undo_personal_expense requests for one expense, however their steps
\* interleave, the wallet is credited once, at most one returns True, and
\* one that returns True has credited the wallet.
C34_CreditedAtMostOnce ==
    /\ \A e \in 1..MaxPersonal :
          Cardinality({i \in DOMAIN undone : undone[i].expense_id = e}) <= 1
    /\ \A c \in Callers, d \in Callers :
          (/\ c # d
           /\ calls[c].pc = "done" /\ calls[c].op = "undo_personal_expense"
           /\ calls[d].pc = "done" /\ calls[d].op = "undo_personal_expense"
           /\ calls[c].expense_id = calls[d].expense_id) =>
             ~(calls[c].result = "True" /\ calls[d].result = "True")
    /\ \A c \in Callers :
          (/\ calls[c].pc = "done" /\ calls[c].op = "undo_personal_expense"
           /\ calls[c].result = "True") => calls[c].credited
C36_MissingPendingRefused ==
    [][\A c \in Callers :
         (/\ calls[c].pc = "idle" /\ calls'[c].pc = "done"
          /\ calls'[c].op \in {"confirm_pending_deduction", "cancel_pending_deduction"}
          /\ calls'[c].pending_id \notin DOMAIN pending_deductions) =>
            /\ calls'[c].result = "False"
            /\ UNCHANGED <<walletTables, settings, pendingTables, group_deductions,
                           group_debts, group_expenses, personal_expenses>>]_vars
\* C37: a decrease of any amount above zero asked for through the wallet
\* decrease flow is applied to the wallet, the balance reduced by it and one
\* adjustment logged, even when the amount is above the balance.
C37_DecreaseNeverRefused ==
    [][\A c \in Callers :
         LET w == calls'[c].wallet_id
         IN  (/\ calls[c].pc = "idle" /\ calls'[c].pc = "done"
              /\ calls'[c].op = "decrease_amount"
              /\ w \in DOMAIN user_wallets) =>
                /\ calls'[c].result = "decreased"
                /\ user_wallets'[w].current_balance =
                      user_wallets[w].current_balance - calls'[c].amount
                /\ Len(wallet_adjustments') = Len(wallet_adjustments) + 1]_vars
\* two debits of one wallet that were both applied, c the one that arrived first
AppliedInOrder(c, d) ==
    /\ calls[c].pc = "done" /\ calls[d].pc = "done"
    /\ "seq" \in DOMAIN calls[c] /\ "seq" \in DOMAIN calls[d]
    /\ calls[c].result = "True" /\ calls[d].result = "True"
    /\ calls[c].wallet_id = calls[d].wallet_id
    /\ calls[c].seq < calls[d].seq

\* C38: debits of one wallet take effect in their order of arrival: the
\* adjustment of the one that arrived first is appended before that of the
\* other, each is computed from the balance the one before it left, and the
\* balance after both is the balance before them less both amounts.
C38_ArrivalOrder ==
    \A c \in Callers, d \in Callers :
        AppliedInOrder(c, d) =>
            LET n == Len(wallet_adjustments)
                w == calls[c].wallet_id
            IN  /\ n >= 2
                /\ wallet_adjustments[n - 1].wallet_id = w
                /\ wallet_adjustments[n - 1].delta_amount = calls[c].delta_amount
                /\ wallet_adjustments[n].wallet_id = w
                /\ wallet_adjustments[n].delta_amount = calls[d].delta_amount
                /\ calls[d].row = calls[c].row + calls[c].delta_amount
                /\ user_wallets[w].current_balance =
                      calls[c].row + calls[c].delta_amount + calls[d].delta_amount

\* two debits of different amounts on one wallet, both applied
C38_Witness ==
    \E c \in Callers, d \in Callers :
        /\ AppliedInOrder(c, d)
        /\ calls[c].delta_amount # calls[d].delta_amount
        /\ calls[c].delta_amount < 0 /\ calls[d].delta_amount < 0
RECURSIVE ShareSum(_)
ShareSum(participants) ==
    IF participants = {} THEN 0
    ELSE LET p == CHOOSE x \in participants : TRUE
         IN  p.share_amount + ShareSum(participants \ {p})

====
